---- MODULE Spec2Model ----
(***************************************************************************)
(* A verification model of PartitionAlloc's address pool manager, the      *)
(* scheduler-loop quarantine, its runtime statistics, the pool-offset      *)
(* freelist link, the shim's LeakySingleton and the lightweight quarantine.*)
(*                                                                         *)
(* Each subsystem has its own specification over the module's variables:   *)
(*   SpecPool      one pool, FindChunk / FreeChunk called one at a time    *)
(*   SpecPoolMT    the same pool called by several threads through         *)
(*                 AddressPoolManager::Alloc / Free, lock_ modelled        *)
(*   SpecSLQ       one scheduler-loop quarantine branch, thread-bound or   *)
(*                 shared, and its root                                    *)
(*   SpecFreelist  one PoolOffsetFreelistEntry written and read back       *)
(*   SpecFreelistCorrupt  one entry emplaced, corrupted and read           *)
(*   SpecChain     entries of one super-page linked by SetNext and walked  *)
(*                 by CheckFreeList (SpecChainLive: the loop keeps going)  *)
(*   SpecManager   the handle table of AddressPoolManager: Add, Remove,    *)
(*                 ResetForTesting, Alloc and Free with any handle         *)
(*   SpecCage      PartitionAddressSpace: Init, InitConfigurablePool,      *)
(*                 UninitForTesting, and Alloc / Free on its pools         *)
(*   SpecAlign     the address arithmetic of PartitionAddressSpace::Init   *)
(*                 for every reservation start and choice of constants     *)
(*   SpecPoolCalls FindChunk / FreeChunk with any address and size, the    *)
(*                 DCHECKs of the build ending the process                 *)
(*   SpecConfigure one branch reconfigured between two roots, Configure    *)
(*                 aborting inside a ScopedQuarantineExclusion             *)
(*   SpecFill      one branch configured once and filled with objects of   *)
(*                 one size                                                *)
(*   SpecBucket    one BucketStats: RecordValue, IncreasePaused, Reset,    *)
(*                 Reported                                                *)
(*   SpecStats     SchedulerLoopQuarantineRuntimeStats: InitOrResetStats,  *)
(*                 AddStats, ShouldPause, ReportedStats                    *)
(*   SpecSingleton the shim's LeakySingleton: concurrent calls of Get(),   *)
(*                 every caller scheduled fairly                           *)
(*   SpecLq        LightweightQuarantineBranch: threads quarantining into  *)
(*                 the branches of one root                                *)
(* The variables a specification does not use keep their initial value.    *)
(***************************************************************************)
EXTENDS Integers, Sequences, FiniteSets, Bags, TLC

VARIABLES
    \* ---- AddressPoolManager::Pool ----
    alloc_bitset,   \* alloc_bitset_: bit index -> BOOLEAN
    bit_hint,       \* bit_hint_
    live,           \* ghost: bag of [address, size] chunks handed out and not freed
    pool_last,      \* ghost: the last completed call, its arguments and result
    \* ---- threads calling Alloc / Free (SpecPoolMT) ----
    lock_holder,    \* lock_: the thread inside the critical section, or NoThread
    pool_pc,        \* per thread: position inside FindChunk / FreeChunk
    pool_local,     \* per thread: the locals of the call in progress
    \* ---- SchedulerLoopQuarantineBranch<thread_bound> ----
    thread_bound,               \* kThreadBound of the branch under study
    root_,                      \* root_: the root Configure stored, NoRoot before
    enable_quarantine,          \* enable_quarantine_
    enable_zapping,             \* enable_zapping_
    pause_quarantine,           \* pause_quarantine_
    branch_capacity_in_bytes,   \* branch_capacity_in_bytes_
    branch_size_in_bytes,       \* branch_size_in_bytes_
    slots,                      \* slots_: sequence of quarantined objects
    working_memory,             \* to_be_freed_working_memory_: NullArray or AnArray
    arrays,                     \* ToBeFreedArray objects allocated and not destroyed (a count)
    \* ---- SchedulerLoopQuarantineRoot ----
    root_size_in_bytes,             \* size_in_bytes_
    root_count,                     \* count_
    root_cumulative_count,          \* cumulative_count_
    root_cumulative_size_in_bytes,  \* cumulative_size_in_bytes_
    root_quarantine_miss_count,     \* quarantine_miss_count_
    \* ---- the allocator root and the callers, as seen by the quarantine ----
    free_count,     \* per object: calls of FreeNoHooksImmediate on it (capped at 2)
    fresh,          \* objects not yet passed to Quarantine
    accepted,       \* ghost: objects ever put onto slots_
    zapped,         \* objects, not with the allocator, whose payload holds kFreedByte
    cap_lowered,    \* ghost: the capacity was lowered since the branch was last drained
    purge_truncated,\* ghost: a deferred purge stopped at kMaxFreeTimesPerPurge
    slq_base,       \* ghost: the root's count and size when the current run of
                    \* accepted Quarantine calls began
    slq_pc,         \* per thread: position inside Quarantine of a shared branch
    slq_local,      \* per thread: the locals of the Quarantine in progress
    slq_last,       \* ghost: the Purge or Configure call of the last step, if it was one
    other_root,     \* the counters of the root that root_ does not point to
    \* ---- PoolOffsetFreelistEntry ----
    fl_build,       \* the build: HAS_MEMORY_TAGGING, PA_DCHECK_IS_ON
    fl_here,        \* `this`: the (tagged) pointer to the entry, 0 when there is none
    fl_next,        \* next_
    fl_shadow,      \* shadow_
    fl_stored,      \* ghost: the pointer last given to SetNext / EmplaceAndInit*
    fl_last,        \* ghost: the last GetNext* call and what it returned
    \* ---- a freelist chain in one super-page ----
    ch_mem,         \* slot start -> the entry emplaced there (next_, shadow_) or NoChainEntry
    ch_link,        \* ghost: slot start -> the pointer last stored by SetNext (0: null)
    ch_pc,          \* "build", "walk" (inside CheckFreeList) or "crashed"
    ch_entry,       \* CheckFreeList's loop variable `entry`
    ch_visited,     \* ghost: the slot starts CheckFreeList has read since it was called
    ch_last,        \* ghost: how the last CheckFreeList ended
    \* ---- AddressPoolManager (the handle table) ----
    cage_build,     \* the build: DCHECK_IS_ON, USE_BACKUP_REF_PTR
    pools_,         \* pools_[handle - 1]: handle -> the Pool, or NoPool
    apm_last,       \* ghost: the last call on the manager and how it ended
    \* ---- PartitionAddressSpace ----
    reserved_address_start_,    \* 0 before Init and after UninitForTesting
    setup_,         \* GigaCageSetup: the pools' base addresses and handles
    \* ---- the address arithmetic of PartitionAddressSpace::Init ----
    al_in,          \* the reservation start and the constants
    al_out,         \* what Init computes from them
    \* ---- SchedulerLoopQuarantineRuntimeStats ----
    bucket,         \* one BucketStats called directly
    bucket_last,    \* ghost: the last call on `bucket`, the RecordValue calls so far
    stats,          \* the tracker: initialized_, the deltas, pause_until_, the buckets
    stats_last,     \* ghost: the last call on the tracker, its arguments and result
    \* ---- LeakySingleton ----
    instance_,              \* instance_: NullInstance or the instance stored
    initialization_lock_,   \* initialization_lock_, and what its last release published
    ls_news,        \* calls of Constructor::New so far
    ls_pc,          \* per caller: position inside Get()
    ls_local,       \* per caller: the pointer read, what the caller has synchronized
                    \* with, and the result and path of its last Get()
    \* ---- LightweightQuarantineBranch and its root ----
    lq_root,        \* the root: capacity_in_bytes_ and the five counters
    lq_branch,      \* per branch: branch_count_, branch_size_in_bytes_, slots_
    lq_lock,        \* per branch: the thread holding lock_, or NoThread
    lq_pc,          \* per thread: position inside Quarantine
    lq_local,       \* per thread: the locals of the Quarantine in progress
    lq_fresh,       \* objects not yet passed to Quarantine
    lq_freed,       \* objects handed to FreeNoHooksImmediate
    lq_last         \* ghost: the insertion or miss of the last step, if it was one

pool_vars == <<alloc_bitset, bit_hint, live, pool_last>>
mt_vars == <<lock_holder, pool_pc, pool_local>>
pool_all_vars == <<alloc_bitset, bit_hint, live, pool_last, lock_holder, pool_pc,
                   pool_local>>
branch_flag_vars == <<thread_bound, root_, enable_quarantine, enable_zapping>>
root_vars == <<root_size_in_bytes, root_count, root_cumulative_count,
               root_cumulative_size_in_bytes, root_quarantine_miss_count>>
slq_vars == <<thread_bound, root_, enable_quarantine, enable_zapping,
              pause_quarantine, branch_capacity_in_bytes, branch_size_in_bytes,
              slots, working_memory, arrays, root_size_in_bytes, root_count,
              root_cumulative_count, root_cumulative_size_in_bytes,
              root_quarantine_miss_count, free_count, fresh, accepted, zapped,
              cap_lowered, purge_truncated, slq_base, slq_pc, slq_local,
              slq_last, other_root>>
fl_vars == <<fl_build, fl_here, fl_next, fl_shadow, fl_stored, fl_last>>
ch_vars == <<ch_mem, ch_link, ch_pc, ch_entry, ch_visited, ch_last>>
apm_vars == <<cage_build, pools_, apm_last>>
pas_vars == <<reserved_address_start_, setup_>>
al_vars == <<al_in, al_out>>
st_vars == <<bucket, bucket_last, stats, stats_last>>
ls_vars == <<instance_, initialization_lock_, ls_news, ls_pc, ls_local>>
lq_vars == <<lq_root, lq_branch, lq_lock, lq_pc, lq_local, lq_fresh, lq_freed, lq_last>>
\* What each subsystem's actions leave alone.
not_pool_vars == <<slq_vars, fl_vars, ch_vars, apm_vars, pas_vars, al_vars, st_vars, ls_vars, lq_vars>>
not_slq_vars == <<pool_all_vars, fl_vars, ch_vars, apm_vars, pas_vars, al_vars, st_vars, ls_vars, lq_vars>>
not_fl_vars == <<pool_all_vars, slq_vars, ch_vars, apm_vars, pas_vars, al_vars, st_vars, ls_vars, lq_vars>>
not_ch_vars == <<pool_all_vars, slq_vars, fl_vars, apm_vars, pas_vars, al_vars, st_vars, ls_vars, lq_vars>>
not_apm_vars == <<pool_all_vars, slq_vars, fl_vars, ch_vars, pas_vars, al_vars, st_vars, ls_vars, lq_vars>>
not_cage_vars == <<pool_all_vars, slq_vars, fl_vars, ch_vars, al_vars, st_vars, ls_vars, lq_vars>>
not_al_vars == <<pool_all_vars, slq_vars, fl_vars, ch_vars, apm_vars, pas_vars, st_vars, ls_vars, lq_vars>>
not_st_vars == <<pool_all_vars, slq_vars, fl_vars, ch_vars, apm_vars, pas_vars, al_vars, ls_vars, lq_vars>>
not_ls_vars == <<pool_all_vars, slq_vars, fl_vars, ch_vars, apm_vars, pas_vars, al_vars, st_vars, lq_vars>>
not_lq_vars == <<pool_all_vars, slq_vars, fl_vars, ch_vars, apm_vars, pas_vars, al_vars, st_vars, ls_vars>>
vars == <<pool_all_vars, slq_vars, fl_vars, ch_vars, apm_vars, pas_vars, al_vars, st_vars, ls_vars, lq_vars>>

-----------------------------------------------------------------------------
(* Machine words.  size_t and uintptr_t are SizeBits wide here; every      *)
(* size_t computation of the code is taken modulo SizeMod.                 *)

SizeBits == 6
SizeMod == 2 ^ SizeBits

\* kSuperPageShift / kSuperPageSize, scaled down with the word width.
kSuperPageShift == 2
kSuperPageSize == 2 ^ kSuperPageShift
kSuperPageOffsetMask == kSuperPageSize - 1

\* Rounding down instead of up.
Align_Down(size, alignment) == size - (size % alignment)

\* bits::Align(size, alignment): (size + alignment - 1) & ~(alignment - 1),
\* computed in size_t (the result is stored in a size_t at both call sites).
Align(size, alignment) ==
    (((size + alignment - 1) % SizeMod) \div alignment) * alignment

\* ceil(size / super_page) over the integers (what the contract speaks of).
CeilSuperPages(size) == (size + kSuperPageSize - 1) \div kSuperPageSize

-----------------------------------------------------------------------------
(* AddressPoolManager::Pool                                                *)

\* Pool::Pool(ptr, length): total_bits_ = length / kSuperPageSize.
PoolBits == 4
total_bits == PoolBits
address_begin == 2 * kSuperPageSize
address_end == address_begin + total_bits * kSuperPageSize

BitIndex == 0 .. (total_bits - 1)

\* The request sizes the callers draw from: zero, unaligned and aligned
\* sizes, the whole pool, one byte more, and the sizes whose round-up to a
\* super-page multiple does not fit a size_t.
RequestSizes ==
    { 0, 1, kSuperPageSize - 1, kSuperPageSize, kSuperPageSize + 1,
      2 * kSuperPageSize, 3 * kSuperPageSize,
      total_bits * kSuperPageSize, total_bits * kSuperPageSize + 1,
      SizeMod - kSuperPageSize, SizeMod - kSuperPageSize + 1, SizeMod - 1 }

\* At most this many chunks are live at once.
MaxLive == 3

\* The inner for-loop of FindChunk (lines 98-110).
RECURSIVE ScanInner(_, _, _, _, _, _)
ScanInner(bits, beg, curr, endb, found, hint) ==
    IF curr >= endb
    THEN [beg_bit |-> beg, curr_bit |-> curr, found |-> found, bit_hint |-> hint]
    ELSE IF bits[curr]
         THEN ScanInner(bits, curr + 1, curr + 1, endb, FALSE,
                        IF hint = curr THEN hint + 1 ELSE hint)
         ELSE ScanInner(bits, beg, curr + 1, endb, found, hint)

\* The outer while(true) loop of FindChunk (lines 90-128) up to the point
\* where it either gives up (end_bit > total_bits_) or has found a region.
RECURSIVE ScanOuter(_, _, _, _, _)
ScanOuter(bits, need_bits, beg, curr, hint) ==
    LET end_bit == beg + need_bits IN
    IF end_bit > total_bits
    THEN [found |-> FALSE, beg_bit |-> beg, end_bit |-> end_bit, bit_hint |-> hint]
    ELSE LET r == ScanInner(bits, beg, curr, end_bit, TRUE, hint) IN
         IF r.found
         THEN [found |-> TRUE, beg_bit |-> r.beg_bit, end_bit |-> end_bit,
               bit_hint |-> r.bit_hint]
         ELSE ScanOuter(bits, need_bits, r.beg_bit, r.curr_bit, r.bit_hint)

\* need_bits of FindChunk (lines 83-84).
NeedBits(requested_size) == Align(requested_size, kSuperPageSize) \div kSuperPageSize

\* FindChunk's search from bit_hint_ (lines 83-110).
FindScan(bits, hint, requested_size) ==
    ScanOuter(bits, NeedBits(requested_size), hint, hint, hint)

\* FindChunk's fill of [beg_bit, end_bit) with 1s (lines 115-118).
FillBits(bits, beg, endb) ==
    [i \in BitIndex |-> bits[i] \/ (beg <= i /\ i < endb)]

\* bit_hint_ after a successful search (lines 119-121).
HintAfterFill(hint, beg, endb) == IF hint = beg THEN endb ELSE hint

\* The address FindChunk returns (line 122).
ChunkAddress(beg) == (address_begin + beg * kSuperPageSize) % SizeMod

\* FreeChunk's bit range (lines 139, 145-146).
FreeBegBit(address) == (address - address_begin) \div kSuperPageSize
\* The size rounded down instead of up.
FreeEndBit_RoundDown(address, free_size) == FreeBegBit(address) + free_size \div kSuperPageSize
FreeEndBit(address, free_size) ==
    FreeBegBit(address) + Align(free_size, kSuperPageSize) \div kSuperPageSize

\* FreeChunk's reset of the bits (lines 147-150).
ClearBits(bits, beg, endb) ==
    [i \in BitIndex |-> bits[i] /\ ~(beg <= i /\ i < endb)]

\* The hint left where it is.
HintAfterFree_Keep(hint, beg) == hint

\* FreeChunk's bit_hint_ = std::min(bit_hint_, beg_bit) (line 151).
HintAfterFree(hint, beg) == IF beg < hint THEN beg ELSE hint

Chunk(address, size) == [address |-> address, size |-> size]
NoCall == [op |-> "none", size |-> 0, before |-> [i \in BitIndex |-> FALSE],
           hint_before |-> 0, ret |-> 0]

NoThread == "none"
Threads == {"t1", "t2"}
NoLocal == [size |-> 0, beg_bit |-> 0, end_bit |-> 0, address |-> 0]

PoolInit ==
    /\ alloc_bitset = [i \in BitIndex |-> FALSE]
    /\ bit_hint = 0
    /\ live = EmptyBag
    /\ pool_last = NoCall

MTInit ==
    /\ lock_holder = NoThread
    /\ pool_pc = [t \in Threads |-> "idle"]
    /\ pool_local = [t \in Threads |-> NoLocal]

\* Pool::FindChunk(requested_size), the whole call under lock_.
FindChunk(requested_size) ==
    /\ BagCardinality(live) < MaxLive
    /\ LET r == FindScan(alloc_bitset, bit_hint, requested_size) IN
       IF r.found
       THEN /\ alloc_bitset' = FillBits(alloc_bitset, r.beg_bit, r.end_bit)
            /\ bit_hint' = HintAfterFill(r.bit_hint, r.beg_bit, r.end_bit)
            /\ live' = live (+) SetToBag({Chunk(ChunkAddress(r.beg_bit), requested_size)})
            /\ pool_last' = [op |-> "find", size |-> requested_size,
                             before |-> alloc_bitset, hint_before |-> bit_hint,
                             ret |-> ChunkAddress(r.beg_bit)]
       ELSE /\ alloc_bitset' = alloc_bitset
            /\ bit_hint' = r.bit_hint
            /\ live' = live
            /\ pool_last' = [op |-> "find", size |-> requested_size,
                             before |-> alloc_bitset, hint_before |-> bit_hint,
                             ret |-> 0]
    /\ UNCHANGED mt_vars
    /\ UNCHANGED not_pool_vars

\* Pool::FreeChunk(address, free_size) of a live chunk with its own size.
FreeChunk(c) ==
    /\ BagIn(c, live)
    /\ alloc_bitset' = ClearBits(alloc_bitset, FreeBegBit(c.address),
                                 FreeEndBit(c.address, c.size))
    /\ bit_hint' = HintAfterFree(bit_hint, FreeBegBit(c.address))
    /\ live' = live (-) SetToBag({c})
    /\ pool_last' = [op |-> "free", size |-> c.size, before |-> alloc_bitset,
                     hint_before |-> bit_hint, ret |-> c.address]
    /\ UNCHANGED mt_vars
    /\ UNCHANGED not_pool_vars

PoolNext ==
    \/ \E s \in RequestSizes : FindChunk(s)
    \/ \E c \in BagToSet(live) : FreeChunk(c)


-----------------------------------------------------------------------------
(* Several threads calling AddressPoolManager::Alloc / Free on one handle. *)
(* Both trampoline to the pool without further locking; FindChunk and      *)
(* FreeChunk hold lock_ (AutoLock) from entry to return.  A call is split  *)
(* at the point between its reads and its writes of the bitmap.            *)

\* base::AutoLock scoped_lock(lock_) can be taken.
LockAvailable == lock_holder = NoThread

\* Alloc(handle, length) -> FindChunk: take lock_ and search (lines 81-110).
\* A failed search returns 0 and releases lock_ at once.
AllocScan(t, requested_size) ==
    /\ pool_pc[t] = "idle"
    /\ LockAvailable
    /\ BagCardinality(live) < MaxLive
    /\ LET r == FindScan(alloc_bitset, bit_hint, requested_size) IN
       /\ bit_hint' = r.bit_hint
       /\ IF r.found
          THEN /\ lock_holder' = t
               /\ pool_pc' = [pool_pc EXCEPT ![t] = "fill"]
               /\ pool_local' = [pool_local EXCEPT ![t] =
                     [size |-> requested_size, beg_bit |-> r.beg_bit,
                      end_bit |-> r.end_bit, address |-> ChunkAddress(r.beg_bit)]]
               /\ pool_last' = pool_last
          ELSE /\ UNCHANGED <<lock_holder, pool_pc, pool_local>>
               /\ pool_last' = [op |-> "find", size |-> requested_size,
                                before |-> alloc_bitset, hint_before |-> bit_hint,
                                ret |-> 0]
    /\ UNCHANGED <<alloc_bitset, live>>
    /\ UNCHANGED not_pool_vars

\* FindChunk: mark the region, move the hint, return the address and
\* release lock_ (lines 114-127).
AllocFill(t) ==
    /\ pool_pc[t] = "fill"
    /\ LET l == pool_local[t] IN
       /\ alloc_bitset' = FillBits(alloc_bitset, l.beg_bit, l.end_bit)
       /\ bit_hint' = HintAfterFill(bit_hint, l.beg_bit, l.end_bit)
       /\ live' = live (+) SetToBag({Chunk(l.address, l.size)})
       /\ pool_last' = [op |-> "find", size |-> l.size, before |-> alloc_bitset,
                        hint_before |-> bit_hint, ret |-> l.address]
    /\ lock_holder' = IF lock_holder = t THEN NoThread ELSE lock_holder
    /\ pool_pc' = [pool_pc EXCEPT ![t] = "idle"]
    /\ pool_local' = [pool_local EXCEPT ![t] = NoLocal]
    /\ UNCHANGED not_pool_vars

\* Free(handle, ptr, length) -> FreeChunk: take lock_ and compute the bit
\* range (lines 135-146).  The caller gives the chunk up with the call.
FreeEnter(t, c) ==
    /\ pool_pc[t] = "idle"
    /\ LockAvailable
    /\ BagIn(c, live)
    /\ live' = live (-) SetToBag({c})
    /\ lock_holder' = t
    /\ pool_pc' = [pool_pc EXCEPT ![t] = "clear"]
    /\ pool_local' = [pool_local EXCEPT ![t] =
          [size |-> c.size, beg_bit |-> FreeBegBit(c.address),
           end_bit |-> FreeEndBit(c.address, c.size), address |-> c.address]]
    /\ UNCHANGED <<alloc_bitset, bit_hint, pool_last>>
    /\ UNCHANGED not_pool_vars

\* FreeChunk: reset the bits, lower the hint, release lock_ (lines 147-152).
FreeClear(t) ==
    /\ pool_pc[t] = "clear"
    /\ LET l == pool_local[t] IN
       /\ alloc_bitset' = ClearBits(alloc_bitset, l.beg_bit, l.end_bit)
       /\ bit_hint' = HintAfterFree(bit_hint, l.beg_bit)
       /\ pool_last' = [op |-> "free", size |-> l.size, before |-> alloc_bitset,
                        hint_before |-> bit_hint, ret |-> l.address]
    /\ lock_holder' = IF lock_holder = t THEN NoThread ELSE lock_holder
    /\ pool_pc' = [pool_pc EXCEPT ![t] = "idle"]
    /\ pool_local' = [pool_local EXCEPT ![t] = NoLocal]
    /\ UNCHANGED live
    /\ UNCHANGED not_pool_vars

PoolMTNext ==
    \/ \E t \in Threads, s \in RequestSizes : AllocScan(t, s)
    \/ \E t \in Threads : AllocFill(t)
    \/ \E t \in Threads, c \in BagToSet(live) : FreeEnter(t, c)
    \/ \E t \in Threads : FreeClear(t)

-----------------------------------------------------------------------------
(* One pool called with arguments of any alignment.                        *)
(*                                                                         *)
(* FreeChunk is called for a chunk the caller holds, with the chunk's      *)
(* address or an address one byte inside it, and with the chunk's size or  *)
(* one byte less.  DCHECKs are compiled in or out with the build           *)
(* (cage_build.dcheck_is_on); a failed DCHECK ends the process.            *)

\* At most this many chunks are held at once here.
MaxHeld == 2

\* The process has not failed a check in FreeChunk.
PoolRunning == pool_last.op # "free_check"

\* The sizes asked of FindChunk: an unaligned size, every multiple of the
\* super-page up to one more than the pool, and a size whose round-up
\* leaves size_t.
CallSizes ==
    {kSuperPageSize + 1, SizeMod - 1}
        \cup {k * kSuperPageSize : k \in 1 .. (total_bits + 1)}

\* The DCHECKs of FreeChunk (lines 137, 140, 142, 148), one of them failing.
FreeChunkDCheckFails(address, free_size) ==
    LET size == Align(free_size, kSuperPageSize)
        beg_bit == FreeBegBit(address)
        end_bit == FreeEndBit(address, free_size)
    IN \/ address % kSuperPageSize # 0
       \/ address < address_begin
       \/ (address + size) % SizeMod > address_end
       \/ \E i \in beg_bit .. (end_bit - 1) : i \notin BitIndex \/ ~alloc_bitset[i]

\* Pool::FreeChunk(address, free_size), called by the holder of chunk c.
FreeChunkAt(c, address, free_size) ==
    /\ PoolRunning
    /\ BagIn(c, live)
    /\ IF cage_build.dcheck_is_on /\ FreeChunkDCheckFails(address, free_size)
       THEN /\ pool_last' = [op |-> "free_check", size |-> free_size,
                             before |-> alloc_bitset, hint_before |-> bit_hint,
                             ret |-> address]
            /\ UNCHANGED <<alloc_bitset, bit_hint, live>>
       ELSE /\ alloc_bitset' = ClearBits(alloc_bitset, FreeBegBit(address),
                                         FreeEndBit(address, free_size))
            /\ bit_hint' = HintAfterFree(bit_hint, FreeBegBit(address))
            /\ live' = live (-) SetToBag({c})
            /\ pool_last' = [op |-> "free", size |-> free_size,
                             before |-> alloc_bitset, hint_before |-> bit_hint,
                             ret |-> address]
    /\ UNCHANGED mt_vars
    /\ UNCHANGED not_pool_vars

\* The addresses and sizes the holder of chunk c passes to FreeChunk.
FreeAddresses(c) == {c.address, c.address + 1}
FreeSizes(c) == {c.size, c.size - 1} \ {0}

PoolCallsNext ==
    \/ \E s \in CallSizes :
          PoolRunning /\ BagCardinality(live) < MaxHeld /\ FindChunk(s)
    \/ \E c \in BagToSet(live) : \E address \in FreeAddresses(c) :
          \E free_size \in FreeSizes(c) : FreeChunkAt(c, address, free_size)

-----------------------------------------------------------------------------
(* SchedulerLoopQuarantineBranch<thread_bound> and its root.               *)
(*                                                                         *)
(* One branch of one root.  The branch is thread-bound or shared           *)
(* (thread_bound, fixed at construction).  On a thread-bound branch        *)
(* Quarantine runs on the owning thread and is one step; on a shared       *)
(* branch it is split where other threads can run: before the lock is      *)
(* taken, after it is released, after BatchFree.  Purge and Configure hold *)
(* lock_ throughout and are one step.  Configure is taken to run while no  *)
(* Quarantine is in progress (it writes the plain flags Quarantine reads   *)
(* without the lock), and Purge after root_ has been assigned.             *)
(* An object is passed to Quarantine at most once.                         *)

\* kMaxFreeTimesPerPurge (1024 in the code), scaled down.
kMaxFreeTimesPerPurge == 1

\* Nesting bound of ScopedQuarantineExclusion scopes.
MaxPauseDepth == 2

\* The largest capacity SetCapacityInBytes and Configure draw from.
MaxCapacity == 2

\* The objects: two small ones, a big one whose insertion into a full
\* branch needs more than kMaxFreeTimesPerPurge evictions, and one from a
\* direct-mapped bucket.
Objects == {"s1", "s2", "big", "dm"}

\* The objects of the runs that fill a branch with entries of one size:
\* three small ones, two big ones.
FillObjects == {"s1", "s2", "s3", "big", "big2"}

AllObjects == Objects \cup FillObjects

\* allocator_root_->GetSlotUsableSize(slot_span) of the object's span.
UsableSize(o) == IF o \in {"s1", "s2", "s3"} THEN 1 ELSE 2

\* allocator_root_->IsDirectMappedBucket(slot_span->bucket).
IsDirectMappedBucket(o) == o = "dm"

Capacities == 0 .. MaxCapacity

\* to_be_freed_working_memory_ holds nullptr or an array.
NullArray == "nullptr"
AnArray == "array"

\* Faulty variant: a borrow that leaves the array in the cache.
WorkingMemoryAfterBorrow_Kept(wm) == wm

\* What to_be_freed_working_memory_.exchange(nullptr) leaves in the cache
\* (line 152).
WorkingMemoryAfterBorrow(wm) == NullArray

\* Faulty variant: a purge that leaves the root's counters alone.
FetchSub_Nothing(counter, n) == counter

\* size_t arithmetic of the root's atomic counters.
FetchSub(counter, n) == (counter + SizeMod - (n % SizeMod)) % SizeMod
FetchAdd(counter, n) == (counter + n) % SizeMod

\* One more call of FreeNoHooksImmediate on each object of the set.
FreedOnce(fc, S) ==
    [o \in AllObjects |-> IF o \in S THEN (IF fc[o] >= 2 THEN 2 ELSE fc[o] + 1)
                       ELSE fc[o]]

SeqToSet(sq) == {sq[i] : i \in 1 .. Len(sq)}

RECURSIVE SumUsable(_)
SumUsable(S) ==
    IF S = {} THEN 0
    ELSE LET o == CHOOSE x \in S : TRUE IN UsableSize(o) + SumUsable(S \ {o})

\* Faulty variant: the early return without the pause_quarantine_ test.
QuarantineBypassed_NoPause(o) ==
    \/ ~enable_quarantine
    \/ IsDirectMappedBucket(o)

\* The early return of Quarantine (lines 130-133 and 208-211).
QuarantineBypassed(o) ==
    \/ ~enable_quarantine
    \/ pause_quarantine # 0
    \/ IsDirectMappedBucket(o)

\* Faulty variant: a capacity check that lets through an entry one byte
\* larger than the capacity.
EntryTooLarge_OffByOne(capacity_in_bytes, o) ==
    capacity_in_bytes + 1 < UsableSize(o)

\* The capacity check of Quarantine (lines 139 and 217).
EntryTooLarge(capacity_in_bytes, o) == capacity_in_bytes < UsableSize(o)

\* PurgeInternal's loop (lines 257-280): pops and frees the last slot while
\* target_size_in_bytes < branch_size_in_bytes_.
RECURSIVE PurgeInternalLoop(_, _, _, _)
PurgeInternalLoop(target, sl, size, freed) ==
    IF target < size /\ sl # <<>>
    THEN LET to_free == sl[Len(sl)] IN
         PurgeInternalLoop(target, SubSeq(sl, 1, Len(sl) - 1),
                           size - UsableSize(to_free), Append(freed, to_free))
    ELSE [slots |-> sl, size |-> size, freed |-> freed]

\* Faulty variant: a purge that pops the slots without freeing them.
PurgeInternal_NoFree(target, sl, size) ==
    [PurgeInternalLoop(target, sl, size, <<>>) EXCEPT !.freed = <<>>]

\* PurgeInternal(target_size_in_bytes) (lines 249-285).
PurgeInternal(target, sl, size) == PurgeInternalLoop(target, sl, size, <<>>)

\* PurgeInternalWithDefferedFree's loop (lines 298-315): pops the last slot
\* into to_be_freed, and stops at kMaxFreeTimesPerPurge slots.
RECURSIVE DefferedFreeLoop(_, _, _, _)
DefferedFreeLoop(target, sl, size, to_be_freed) ==
    IF target < size /\ sl # <<>>
    THEN LET to_free == sl[Len(sl)]
             out == Append(to_be_freed, to_free)
         IN IF Len(out) >= kMaxFreeTimesPerPurge
            THEN [slots |-> SubSeq(sl, 1, Len(sl) - 1),
                  size |-> size - UsableSize(to_free), freed |-> out]
            ELSE DefferedFreeLoop(target, SubSeq(sl, 1, Len(sl) - 1),
                                  size - UsableSize(to_free), out)
    ELSE [slots |-> sl, size |-> size, freed |-> to_be_freed]

\* Faulty variant: a deferred purge that copies the slots to to_be_freed
\* without popping them.
PurgeInternalWithDefferedFree_NoPop(target, sl, size) ==
    [DefferedFreeLoop(target, sl, size, <<>>) EXCEPT !.slots = sl]

\* PurgeInternalWithDefferedFree(target, to_be_freed, num_of_slots)
\* (lines 287-320).
PurgeInternalWithDefferedFree(target, sl, size) ==
    DefferedFreeLoop(target, sl, size, <<>>)

\* Faulty variant: a purge down to the capacity, leaving no room for the
\* entry being inserted.
PurgeTarget_NoRoom(capacity_in_bytes, o) == capacity_in_bytes

\* The target Quarantine purges down to (lines 165 and 228).
PurgeTarget(capacity_in_bytes, o) == capacity_in_bytes - UsableSize(o)

\* Faulty variant: the pushed entry is copied to random_index, not swapped.
PushAndSwap_Assign(sl, o, random_index) == [i \in 1 .. (Len(sl) + 1) |-> IF i = random_index + 1 \/ i = Len(sl) + 1 THEN o ELSE sl[i]]

\* slots_.push_back then std::swap(slots_[random_index], slots_.back())
\* (lines 170-175 and 232-237).
PushAndSwap(sl, o, random_index) ==
    LET pushed == Append(sl, o)
        n == Len(pushed)
    IN [i \in 1 .. n |->
          IF i = random_index + 1 THEN pushed[n]
          ELSE IF i = n THEN pushed[random_index + 1]
          ELSE pushed[i]]

\* QuarantineEpilogue (lines 338-357) on the set z of the objects, not
\* with the allocator, whose payload holds kFreedByte in all its
\* usable_size bytes: SecureMemset when enable_zapping_ is set.
QuarantineEpilogue(z, o) == IF enable_zapping THEN z \cup {o} ELSE z

\* The objects of S go back to the allocator, which writes a freelist entry
\* at the start of each slot: their payload is no longer all kFreedByte.
Released(z, S) == z \ S

\* The epilogue of Quarantine on a shared branch runs after lock_ has been
\* released (lines 176-198): by then another thread may have evicted and
\* freed the object, and SecureMemset writes to a slot the allocator owns.
\* What such a slot holds is the allocator's and its next owner's doing:
\* the object stays out of z.
EpilogueAfterUnlock(z, o) ==
    IF free_count[o] > 0 THEN z ELSE QuarantineEpilogue(z, o)

\* The SchedulerLoopQuarantineRoot objects Configure is called with, all of
\* the branch's allocator root.
Roots == {"r1", "r2"}
NoRoot == "none"

NoCounters ==
    [size_in_bytes |-> 0, count |-> 0, cumulative_count |-> 0,
     cumulative_size_in_bytes |-> 0, quarantine_miss_count |-> 0]

\* The five counters of the root that root_ points to.
RootCounters ==
    [size_in_bytes |-> root_size_in_bytes, count |-> root_count,
     cumulative_count |-> root_cumulative_count,
     cumulative_size_in_bytes |-> root_cumulative_size_in_bytes,
     quarantine_miss_count |-> root_quarantine_miss_count]

\* slq_last when the last step was no call of Purge or Configure.
NoConfig ==
    [enable_quarantine |-> FALSE, enable_zapping |-> FALSE,
     branch_capacity_in_bytes |-> 0]
NoSlqCall ==
    [op |-> "none", root |-> NoRoot, config |-> NoConfig, outcome |-> "none",
     locked_free |-> FALSE]

\* The counters of a root, whether root_ points to it or not.
CountersOf(root) == IF root = root_ THEN RootCounters ELSE other_root

\* Faulty variant: no free is taken to run under the lock.
FreedUnderLock_Never(freed) == FALSE

\* FreeNoHooksImmediate is called for an entry of the sequence while lock_
\* is held: a thread-bound branch takes no lock (FakeScopedGuard).
FreedUnderLock(freed) == ~thread_bound /\ freed # <<>>

\* Faulty variant: a Configure without its first PA_CHECK.
ConfigurePaused_Never == FALSE

\* PA_CHECK(pause_quarantine_ == 0) of Configure fails (line 63).
ConfigurePaused == pause_quarantine # 0

NoObject == "none"
NoSlqLocal == [object |-> NoObject, capacity_in_bytes |-> 0, to_be_freed |-> <<>>]

AllIdle == \A t \in Threads : slq_pc[t] = "idle"

\* Ghost bookkeeping of slq_base.  A call other than an accepted Quarantine
\* starts a new run: the base is the root's count and size after it, taken
\* only when no Quarantine is in progress.
NoBase == [valid |-> FALSE, count |-> 0, size_in_bytes |-> 0, held |-> 0,
           inserts |-> FALSE]
BaseRestarts ==
    slq_base' = IF AllIdle
                THEN [valid |-> TRUE, count |-> root_count',
                      size_in_bytes |-> root_size_in_bytes',
                      held |-> Len(slots'), inserts |-> FALSE]
                ELSE NoBase
BaseCountsInsert ==
    slq_base' = IF slq_base.valid THEN [slq_base EXCEPT !.inserts = TRUE]
                ELSE slq_base

\* The branch after its constructor, the root after its own.
SLQConstructed ==
    /\ root_ = NoRoot
    /\ enable_quarantine = FALSE
    /\ enable_zapping = FALSE
    /\ pause_quarantine = 0
    /\ branch_capacity_in_bytes = 0
    /\ branch_size_in_bytes = 0
    /\ slots = <<>>
    /\ working_memory = NullArray
    /\ arrays = 0
    /\ root_size_in_bytes = 0
    /\ root_count = 0
    /\ root_cumulative_count = 0
    /\ root_cumulative_size_in_bytes = 0
    /\ root_quarantine_miss_count = 0
    /\ free_count = [o \in AllObjects |-> 0]
    /\ fresh = AllObjects
    /\ accepted = {}
    /\ zapped = {}
    /\ cap_lowered = FALSE
    /\ purge_truncated = FALSE
    /\ slq_base = [valid |-> TRUE, count |-> 0, size_in_bytes |-> 0, held |-> 0,
                   inserts |-> FALSE]
    /\ slq_pc = [t \in Threads |-> "idle"]
    /\ slq_local = [t \in Threads |-> NoSlqLocal]
    /\ slq_last = NoSlqCall
    /\ other_root = NoCounters

SLQIdle == thread_bound = FALSE /\ SLQConstructed

\* Quarantine(object, ...) taking the early return: one immediate free.
QuarantineBypass(o) ==
    /\ o \in fresh
    /\ QuarantineBypassed(o)
    /\ fresh' = fresh \ {o}
    /\ free_count' = FreedOnce(free_count, {o})
    /\ UNCHANGED <<thread_bound, root_, enable_quarantine, enable_zapping,
                   pause_quarantine, branch_capacity_in_bytes,
                   branch_size_in_bytes, slots, working_memory, arrays,
                   root_size_in_bytes, root_count, root_cumulative_count,
                   root_cumulative_size_in_bytes, root_quarantine_miss_count,
                   accepted, zapped, cap_lowered, purge_truncated, slq_pc,
                   slq_local>>
    /\ BaseRestarts
    /\ slq_last' = NoSlqCall
    /\ UNCHANGED <<other_root, not_slq_vars>>

\* Quarantine(object, ...) of an entry larger than the capacity: an
\* immediate free and one quarantine miss (lines 137-145 and 215-223).
QuarantineMiss(o) ==
    /\ o \in fresh
    /\ ~QuarantineBypassed(o)
    /\ EntryTooLarge(branch_capacity_in_bytes, o)
    /\ fresh' = fresh \ {o}
    /\ free_count' = FreedOnce(free_count, {o})
    /\ root_quarantine_miss_count' = FetchAdd(root_quarantine_miss_count, 1)
    /\ UNCHANGED <<thread_bound, root_, enable_quarantine, enable_zapping,
                   pause_quarantine, branch_capacity_in_bytes,
                   branch_size_in_bytes, slots, working_memory, arrays,
                   root_size_in_bytes, root_count, root_cumulative_count,
                   root_cumulative_size_in_bytes, accepted, zapped,
                   cap_lowered, purge_truncated, slq_pc, slq_local>>
    /\ BaseRestarts
    /\ slq_last' = NoSlqCall
    /\ UNCHANGED <<other_root, not_slq_vars>>

\* SchedulerLoopQuarantineBranch<true>::Quarantine accepting the entry
\* (lines 225-246): purge inline, push, swap, stats, epilogue.
QuarantineThreadBound(o, random_index) ==
    /\ thread_bound
    /\ o \in fresh
    /\ ~QuarantineBypassed(o)
    /\ ~EntryTooLarge(branch_capacity_in_bytes, o)
    /\ LET r == PurgeInternal(PurgeTarget(branch_capacity_in_bytes, o), slots,
                              branch_size_in_bytes)
       IN /\ random_index \in 0 .. Len(r.slots)
          /\ slots' = PushAndSwap(r.slots, o, random_index)
          /\ branch_size_in_bytes' = r.size + UsableSize(o)
          /\ free_count' = FreedOnce(free_count, SeqToSet(r.freed))
          /\ root_size_in_bytes' =
                FetchAdd(FetchSub(root_size_in_bytes, SumUsable(SeqToSet(r.freed))),
                         UsableSize(o))
          /\ root_count' = FetchAdd(FetchSub(root_count, Len(r.freed)), 1)
          /\ zapped' = QuarantineEpilogue(Released(zapped, SeqToSet(r.freed)), o)
    /\ root_cumulative_count' = FetchAdd(root_cumulative_count, 1)
    /\ root_cumulative_size_in_bytes' =
          FetchAdd(root_cumulative_size_in_bytes, UsableSize(o))
    /\ fresh' = fresh \ {o}
    /\ accepted' = accepted \cup {o}
    /\ UNCHANGED <<thread_bound, root_, enable_quarantine, enable_zapping,
                   pause_quarantine, branch_capacity_in_bytes, working_memory,
                   arrays, root_quarantine_miss_count, cap_lowered,
                   purge_truncated, slq_pc, slq_local>>
    /\ BaseCountsInsert
    /\ slq_last' = NoSlqCall
    /\ UNCHANGED <<other_root, not_slq_vars>>

\* SchedulerLoopQuarantineBranch<false>::Quarantine accepting the entry,
\* up to the lock (lines 130-158): the checks, the capacity load, and the
\* borrowing of the working memory (a new array when it is taken).
QuarantineBorrow(t, o) ==
    /\ ~thread_bound
    /\ slq_pc[t] = "idle"
    /\ o \in fresh
    /\ ~QuarantineBypassed(o)
    /\ ~EntryTooLarge(branch_capacity_in_bytes, o)
    /\ slq_local' = [slq_local EXCEPT ![t] =
          [object |-> o, capacity_in_bytes |-> branch_capacity_in_bytes,
           to_be_freed |-> <<>>]]
    /\ arrays' = IF working_memory # NullArray THEN arrays ELSE arrays + 1
    /\ working_memory' = WorkingMemoryAfterBorrow(working_memory)
    /\ fresh' = fresh \ {o}
    /\ slq_pc' = [slq_pc EXCEPT ![t] = "locked"]
    /\ UNCHANGED <<thread_bound, root_, enable_quarantine, enable_zapping,
                   pause_quarantine, branch_capacity_in_bytes,
                   branch_size_in_bytes, slots, root_size_in_bytes, root_count,
                   root_cumulative_count, root_cumulative_size_in_bytes,
                   root_quarantine_miss_count, free_count, accepted, zapped,
                   cap_lowered, purge_truncated>>
    /\ BaseCountsInsert
    /\ slq_last' = NoSlqCall
    /\ UNCHANGED <<other_root, not_slq_vars>>

\* The critical section of Quarantine on a shared branch (lines 160-176).
QuarantineLocked(t, random_index) ==
    /\ slq_pc[t] = "locked"
    /\ LET o == slq_local[t].object
           target == PurgeTarget(slq_local[t].capacity_in_bytes, o)
           r == PurgeInternalWithDefferedFree(target, slots, branch_size_in_bytes)
       IN /\ random_index \in 0 .. Len(r.slots)
          /\ slots' = PushAndSwap(r.slots, o, random_index)
          /\ branch_size_in_bytes' = r.size + UsableSize(o)
          /\ root_size_in_bytes' =
                FetchSub(root_size_in_bytes, SumUsable(SeqToSet(r.freed)))
          /\ root_count' = FetchSub(root_count, Len(r.freed))
          /\ slq_local' = [slq_local EXCEPT ![t].to_be_freed = r.freed]
          /\ accepted' = accepted \cup {o}
          /\ purge_truncated' = (purge_truncated \/ target < r.size)
    /\ slq_pc' = [slq_pc EXCEPT ![t] = "batch_free"]
    /\ UNCHANGED <<thread_bound, root_, enable_quarantine, enable_zapping,
                   pause_quarantine, branch_capacity_in_bytes, working_memory,
                   arrays, root_cumulative_count, root_cumulative_size_in_bytes,
                   root_quarantine_miss_count, free_count, fresh, zapped,
                   cap_lowered>>
    /\ UNCHANGED slq_base
    /\ slq_last' = NoSlqCall
    /\ UNCHANGED <<other_root, not_slq_vars>>

\* BatchFree(*to_be_freed, num_of_slots), outside the lock (lines 179,
\* 322-336).
QuarantineBatchFree(t) ==
    /\ slq_pc[t] = "batch_free"
    /\ free_count' = FreedOnce(free_count, SeqToSet(slq_local[t].to_be_freed))
    /\ zapped' = Released(zapped, SeqToSet(slq_local[t].to_be_freed))
    /\ slq_local' = [slq_local EXCEPT ![t].to_be_freed = <<>>]
    /\ slq_pc' = [slq_pc EXCEPT ![t] = "finish"]
    /\ UNCHANGED <<thread_bound, root_, enable_quarantine, enable_zapping,
                   pause_quarantine, branch_capacity_in_bytes,
                   branch_size_in_bytes, slots, working_memory, arrays,
                   root_size_in_bytes, root_count, root_cumulative_count,
                   root_cumulative_size_in_bytes, root_quarantine_miss_count,
                   fresh, accepted, cap_lowered, purge_truncated>>
    /\ UNCHANGED slq_base
    /\ slq_last' = NoSlqCall
    /\ UNCHANGED <<other_root, not_slq_vars>>

\* The end of Quarantine on a shared branch (lines 188-198): the working
\* memory goes back (the array found there is destroyed), the root's stats
\* are updated, the epilogue runs.
QuarantineFinish(t) ==
    /\ slq_pc[t] = "finish"
    /\ working_memory' = AnArray
    /\ arrays' = IF working_memory # NullArray THEN arrays - 1 ELSE arrays
    /\ root_count' = FetchAdd(root_count, 1)
    /\ root_size_in_bytes' =
          FetchAdd(root_size_in_bytes, UsableSize(slq_local[t].object))
    /\ root_cumulative_count' = FetchAdd(root_cumulative_count, 1)
    /\ root_cumulative_size_in_bytes' =
          FetchAdd(root_cumulative_size_in_bytes, UsableSize(slq_local[t].object))
    /\ zapped' = EpilogueAfterUnlock(zapped, slq_local[t].object)
    /\ slq_local' = [slq_local EXCEPT ![t] = NoSlqLocal]
    /\ slq_pc' = [slq_pc EXCEPT ![t] = "idle"]
    /\ UNCHANGED <<thread_bound, root_, enable_quarantine, enable_zapping,
                   pause_quarantine, branch_capacity_in_bytes,
                   branch_size_in_bytes, slots, root_quarantine_miss_count,
                   free_count, fresh, accepted, cap_lowered, purge_truncated>>
    /\ UNCHANGED slq_base
    /\ slq_last' = NoSlqCall
    /\ UNCHANGED <<other_root, not_slq_vars>>

\* Purge() (lines 116-121): PurgeInternal(0) under the lock.
Purge ==
    /\ root_ # NoRoot
    /\ LET r == PurgeInternal(0, slots, branch_size_in_bytes)
       IN /\ slots' = r.slots
          /\ branch_size_in_bytes' = r.size
          /\ free_count' = FreedOnce(free_count, SeqToSet(r.freed))
          /\ root_size_in_bytes' =
                FetchSub(root_size_in_bytes, SumUsable(SeqToSet(r.freed)))
          /\ root_count' = FetchSub(root_count, Len(r.freed))
          /\ zapped' = Released(zapped, SeqToSet(r.freed))
          /\ slq_last' = [NoSlqCall EXCEPT !.op = "Purge", !.outcome = "returned",
                                           !.locked_free = FreedUnderLock(r.freed)]
    /\ cap_lowered' = (cap_lowered /\ ~AllIdle)
    /\ purge_truncated' = (purge_truncated /\ ~AllIdle)
    /\ UNCHANGED <<thread_bound, root_, enable_quarantine, enable_zapping,
                   pause_quarantine, branch_capacity_in_bytes, working_memory,
                   arrays, root_cumulative_count, root_cumulative_size_in_bytes,
                   root_quarantine_miss_count, fresh, accepted, slq_pc,
                   slq_local>>
    /\ BaseRestarts
    /\ UNCHANGED <<other_root, not_slq_vars>>

\* SetCapacityInBytes(capacity_in_bytes) (lines 110-114): a store.
SetCapacityInBytes(capacity_in_bytes) ==
    /\ branch_capacity_in_bytes' = capacity_in_bytes
    /\ cap_lowered' = (cap_lowered \/ capacity_in_bytes < branch_capacity_in_bytes)
    /\ UNCHANGED <<thread_bound, root_, enable_quarantine, enable_zapping,
                   pause_quarantine, branch_size_in_bytes, slots, working_memory,
                   arrays, root_size_in_bytes, root_count, root_cumulative_count,
                   root_cumulative_size_in_bytes, root_quarantine_miss_count,
                   free_count, fresh, accepted, zapped, purge_truncated, slq_pc,
                   slq_local>>
    /\ BaseRestarts
    /\ slq_last' = NoSlqCall
    /\ UNCHANGED <<other_root, not_slq_vars>>

\* Configure(root, config) (lines 59-95) passing its PA_CHECKs: the purge
\* goes to the counters of the root that root_ pointed to, then root_, the
\* flags and the capacity are stored and the working memory is replaced.
Configure(root, config) ==
    /\ ~ConfigurePaused
    /\ AllIdle
    /\ LET r == IF enable_quarantine
                THEN PurgeInternal(0, slots, branch_size_in_bytes)
                ELSE [slots |-> slots, size |-> branch_size_in_bytes,
                      freed |-> <<>>]
           purged == [RootCounters EXCEPT
                        !.size_in_bytes =
                            FetchSub(root_size_in_bytes, SumUsable(SeqToSet(r.freed))),
                        !.count = FetchSub(root_count, Len(r.freed))]
           same == root_ \in {NoRoot, root}
           now == IF same THEN purged ELSE other_root
       IN /\ slots' = r.slots
          /\ branch_size_in_bytes' = r.size
          /\ free_count' = FreedOnce(free_count, SeqToSet(r.freed))
          /\ zapped' = Released(zapped, SeqToSet(r.freed))
          /\ root_size_in_bytes' = now.size_in_bytes
          /\ root_count' = now.count
          /\ root_cumulative_count' = now.cumulative_count
          /\ root_cumulative_size_in_bytes' = now.cumulative_size_in_bytes
          /\ root_quarantine_miss_count' = now.quarantine_miss_count
          /\ other_root' = IF same THEN other_root ELSE purged
          /\ slq_last' = [op |-> "Configure", root |-> root, config |-> config,
                          outcome |-> "returned",
                          locked_free |-> FreedUnderLock(r.freed)]
    /\ root_' = root
    /\ enable_quarantine' = config.enable_quarantine
    /\ enable_zapping' = config.enable_zapping
    /\ branch_capacity_in_bytes' = config.branch_capacity_in_bytes
    /\ IF config.enable_quarantine /\ ~thread_bound
       THEN /\ working_memory' = AnArray
            /\ arrays' = IF working_memory # NullArray THEN arrays ELSE arrays + 1
       ELSE /\ working_memory' = NullArray
            /\ arrays' = IF working_memory # NullArray THEN arrays - 1 ELSE arrays
    /\ cap_lowered' = FALSE
    /\ purge_truncated' = FALSE
    /\ UNCHANGED <<thread_bound, pause_quarantine, fresh, accepted, slq_pc,
                   slq_local>>
    /\ BaseRestarts
    /\ UNCHANGED not_slq_vars

\* Configure(root, config) called inside a ScopedQuarantineExclusion: the
\* PA_CHECK at line 63 ends the process before anything is touched.
ConfigureAborts ==
    /\ ConfigurePaused
    /\ slq_last' = [NoSlqCall EXCEPT !.op = "Configure", !.outcome = "check"]
    /\ UNCHANGED <<thread_bound, root_, enable_quarantine, enable_zapping,
                   pause_quarantine, branch_capacity_in_bytes,
                   branch_size_in_bytes, slots, working_memory, arrays,
                   root_size_in_bytes, root_count, root_cumulative_count,
                   root_cumulative_size_in_bytes, root_quarantine_miss_count,
                   free_count, fresh, accepted, zapped, cap_lowered,
                   purge_truncated, slq_base, slq_pc, slq_local, other_root>>
    /\ UNCHANGED not_slq_vars

Configs ==
    [enable_quarantine : BOOLEAN, enable_zapping : BOOLEAN,
     branch_capacity_in_bytes : Capacities]

\* ScopedQuarantineExclusion's constructor (lines 157-162).
EnterExclusion ==
    /\ ~enable_quarantine \/ thread_bound
    /\ pause_quarantine < MaxPauseDepth
    /\ pause_quarantine' = pause_quarantine + 1
    /\ UNCHANGED <<thread_bound, root_, enable_quarantine, enable_zapping,
                   branch_capacity_in_bytes, branch_size_in_bytes, slots,
                   working_memory, arrays, root_size_in_bytes, root_count,
                   root_cumulative_count, root_cumulative_size_in_bytes,
                   root_quarantine_miss_count, free_count, fresh, accepted,
                   zapped, cap_lowered, purge_truncated, slq_pc, slq_local>>
    /\ BaseRestarts
    /\ slq_last' = NoSlqCall
    /\ UNCHANGED <<other_root, not_slq_vars>>

\* ScopedQuarantineExclusion's destructor (lines 164-166).
LeaveExclusion ==
    /\ pause_quarantine > 0
    /\ pause_quarantine' = pause_quarantine - 1
    /\ UNCHANGED <<thread_bound, root_, enable_quarantine, enable_zapping,
                   branch_capacity_in_bytes, branch_size_in_bytes, slots,
                   working_memory, arrays, root_size_in_bytes, root_count,
                   root_cumulative_count, root_cumulative_size_in_bytes,
                   root_quarantine_miss_count, free_count, fresh, accepted,
                   zapped, cap_lowered, purge_truncated, slq_pc, slq_local>>
    /\ BaseRestarts
    /\ slq_last' = NoSlqCall
    /\ UNCHANGED <<other_root, not_slq_vars>>

SLQNext ==
    \/ \E o \in Objects : QuarantineBypass(o)
    \/ \E o \in Objects : QuarantineMiss(o)
    \/ \E o \in Objects, i \in 0 .. (Cardinality(Objects) - 1) :
          QuarantineThreadBound(o, i)
    \/ \E t \in Threads, o \in Objects : QuarantineBorrow(t, o)
    \/ \E t \in Threads, i \in 0 .. (Cardinality(Objects) - 1) :
          QuarantineLocked(t, i)
    \/ \E t \in Threads : QuarantineBatchFree(t)
    \/ \E t \in Threads : QuarantineFinish(t)
    \/ Purge
    \/ \E c \in Capacities : SetCapacityInBytes(c)
    \/ \E config \in Configs : Configure("r1", config)
    \/ EnterExclusion
    \/ LeaveExclusion

\* No PA_CHECK has failed.
SLQRunning == slq_last.outcome # "check"

\* The calls around Configure: the branch is filled by one thread's
\* Quarantine calls, configured with either root, and Configure is called
\* inside exclusion scopes as well.
ConfigureNext ==
    /\ SLQRunning
    /\ \/ \E o \in Objects, i \in 0 .. (Cardinality(Objects) - 1) :
             QuarantineThreadBound(o, i)
       \/ \E o \in Objects : QuarantineBorrow("t1", o)
       \/ \E i \in 0 .. (Cardinality(Objects) - 1) : QuarantineLocked("t1", i)
       \/ QuarantineBatchFree("t1")
       \/ QuarantineFinish("t1")
       \/ \E c \in Capacities : SetCapacityInBytes(c)
       \/ \E root \in Roots, config \in Configs : Configure(root, config)
       \/ ConfigureAborts
       \/ EnterExclusion
       \/ LeaveExclusion

\* The capacities of the runs that fill a branch.
FillCapacities == 1 .. (MaxCapacity + 1)

FillConfigs ==
    [enable_quarantine : {TRUE}, enable_zapping : BOOLEAN,
     branch_capacity_in_bytes : FillCapacities]

\* The objects passed to Quarantine so far.
Passed == AllObjects \ fresh

\* Object o has the usable size of the objects passed so far.
SameSizeAsPassed(o) == \A p \in Passed : UsableSize(p) = UsableSize(o)

\* A branch configured once, with quarantine enabled, and then filled by
\* Quarantine calls for entries of one usable size that the capacity can
\* hold: no Purge, no SetCapacityInBytes, no exclusion scope.
FillNext ==
    \/ \E config \in FillConfigs : root_ = NoRoot /\ Configure("r1", config)
    \/ \E o \in FillObjects, i \in 0 .. (Cardinality(Objects) - 1) :
          SameSizeAsPassed(o) /\ QuarantineThreadBound(o, i)
    \/ \E t \in Threads, o \in FillObjects :
          SameSizeAsPassed(o) /\ QuarantineBorrow(t, o)
    \/ \E t \in Threads, i \in 0 .. (Cardinality(Objects) - 1) :
          QuarantineLocked(t, i)
    \/ \E t \in Threads : QuarantineBatchFree(t)
    \/ \E t \in Threads : QuarantineFinish(t)

-----------------------------------------------------------------------------
(* PoolOffsetFreelistEntry.                                                *)
(*                                                                         *)
(* One entry at a time: it is emplaced in a free slot, its link is written *)
(* and read back, and it goes away when the slot is handed to the user.    *)
(* Pointers are SizeBits-wide words: the top bit is the memory tag, the    *)
(* two bits below it select the pool, the rest is the offset in the pool.  *)
(* FreelistCorruptionDetected ends the process.                            *)

\* Bitwise operations on words.  BitAnd and BitOr take the value of each
\* operand once and work on its binary digits.
RECURSIVE AndDigits(_, _)
AndDigits(a, b) ==
    IF a = 0 \/ b = 0 THEN 0
    ELSE (a % 2) * (b % 2) + 2 * AndDigits(a \div 2, b \div 2)

BitAnd(a, b) == CHOOSE r \in {AndDigits(x, y) : x \in {a}, y \in {b}} : TRUE

RECURSIVE OrDigits(_, _)
OrDigits(a, b) ==
    IF a = 0 THEN b
    ELSE IF b = 0 THEN a
    ELSE (IF a % 2 = 1 \/ b % 2 = 1 THEN 1 ELSE 0)
            + 2 * OrDigits(a \div 2, b \div 2)

BitOr(a, b) == CHOOSE r \in {OrDigits(x, y) : x \in {a}, y \in {b}} : TRUE

BitNot(a) == SizeMod - 1 - a

BitXor(a, b) == BitOr(a, b) - BitAnd(a, b)

\* kNonBRPPoolSize = kBRPPoolSize = kPoolMaxSize, scaled down to two
\* super-pages.
kPoolShift == kSuperPageShift + 1
kPoolSize == 2 ^ kPoolShift
kPoolOffsetMask == kPoolSize - 1
kPoolBaseMask == BitNot(kPoolOffsetMask)

\* setup_ after PartitionAddressSpace::Init(): each pool aligned on its size.
non_brp_pool_base_address == kPoolSize
brp_pool_base_address == 2 * kPoolSize

kSuperPageBaseMask == BitNot(kSuperPageOffsetMask)

\* PartitionPageSize(): the first partition page of a super-page holds the
\* metadata.  Scaled down to half a super-page.
PartitionPageSize == 2 ^ (kSuperPageShift - 1)

\* kPtrTagMask: the tag bits of a pointer when the build has memory
\* tagging, 0 otherwise.
kPtrTagMask == IF fl_build.has_memory_tagging THEN 2 ^ (SizeBits - 1) ELSE 0

\* UntagAddr / SlotStartPtr2Addr.
SlotStartPtr2Addr(ptr) == BitAnd(ptr, BitNot(kPtrTagMask))

IsInNonBRPPool(address) ==
    BitAnd(address, kPoolBaseMask) = non_brp_pool_base_address

IsInBRPPool(address) ==
    BitAnd(address, kPoolBaseMask) = brp_pool_base_address

\* PartitionAddressSpace::GetPoolInfo(address): base, base mask and offset of
\* the pool that holds the address.
GetPoolInfo(address) ==
    LET untagged == SlotStartPtr2Addr(address)
        base == IF IsInNonBRPPool(untagged) THEN non_brp_pool_base_address
                ELSE brp_pool_base_address
    IN [base |-> base, base_mask |-> kPoolBaseMask, offset |-> untagged - base]

kNullptrOffset == 0

\* The addresses of the two pools, the tags a pointer can carry, the
\* non-null pointers into a known pool, and the slot starts (addresses
\* outside the metadata partition page of their super-page).
PoolAddresses ==
    {base + off : base \in {non_brp_pool_base_address, brp_pool_base_address},
                  off \in 0 .. (kPoolSize - 1)}
PtrTags == {0, kPtrTagMask}
PoolPointers == {BitOr(a, tg) : a \in PoolAddresses, tg \in PtrTags}
SlotStarts ==
    {a \in PoolAddresses : BitAnd(a, kSuperPageOffsetMask) >= PartitionPageSize}

\* Faulty variant: an encoding that drops the tag bits.
EncodeToOffset_NoTag(ptr) ==
    IF ptr = 0 THEN kNullptrOffset
    ELSE BitAnd(ptr, BitNot(GetPoolInfo(ptr).base_mask))

\* EncodeToOffset(ptr).
EncodeToOffset(ptr) ==
    IF ptr = 0 THEN kNullptrOffset
    ELSE BitAnd(ptr, BitOr(kPtrTagMask, BitNot(GetPoolInfo(ptr).base_mask)))

\* The PA_DCHECK of EncodeToOffset (line 155) fails.
EncodeDCheckFails(ptr) ==
    /\ fl_build.dcheck_is_on
    /\ ptr # 0
    /\ EncodeToOffset(ptr) #
          BitOr(GetPoolInfo(ptr).offset, BitAnd(ptr, kPtrTagMask))

\* Faulty variant: a decoding that leaves the pool base out.
DecodeFromOffset_NoBase(tagged_offset, pool_info) == tagged_offset

\* DecodeFromOffset(tagged_offset, pool_info).
DecodeFromOffset(tagged_offset, pool_info) == BitOr(pool_info.base, tagged_offset)

\* Faulty variant: IsWellFormed without the shadow check.
IsWellFormed_NoShadow(for_thread_cache, pool_info, here, next, next_, shadow_) ==
    LET here_address == SlotStartPtr2Addr(here)
        next_address == SlotStartPtr2Addr(next)
        no_bit_in_pool_base_mask == BitAnd(next_, pool_info.base_mask) = 0
        not_in_metadata ==
            BitAnd(next_address, kSuperPageOffsetMask) >= PartitionPageSize
        same_super_page ==
            BitAnd(here_address, kSuperPageBaseMask)
                = BitAnd(next_address, kSuperPageBaseMask)
    IN IF for_thread_cache
       THEN no_bit_in_pool_base_mask /\ not_in_metadata
       ELSE no_bit_in_pool_base_mask /\ same_super_page /\ not_in_metadata

\* Faulty variant: IsWellFormed without the same-super-page check.
IsWellFormed_AnySuperPage(for_thread_cache, pool_info, here, next, next_, shadow_) ==
    LET next_address == SlotStartPtr2Addr(next)
        no_bit_in_pool_base_mask == BitAnd(next_, pool_info.base_mask) = 0
        not_in_metadata ==
            BitAnd(next_address, kSuperPageOffsetMask) >= PartitionPageSize
        shadow_ptr_ok == BitNot(next_) = shadow_
    IN no_bit_in_pool_base_mask /\ shadow_ptr_ok /\ not_in_metadata

\* IsWellFormed<for_thread_cache>(pool_info, here, next); next_ and shadow_
\* are here's fields.
IsWellFormed(for_thread_cache, pool_info, here, next, next_, shadow_) ==
    LET here_address == SlotStartPtr2Addr(here)
        next_address == SlotStartPtr2Addr(next)
        no_bit_in_pool_base_mask == BitAnd(next_, pool_info.base_mask) = 0
        not_in_metadata ==
            BitAnd(next_address, kSuperPageOffsetMask) >= PartitionPageSize
        shadow_ptr_ok == BitNot(next_) = shadow_
        same_super_page ==
            BitAnd(here_address, kSuperPageBaseMask)
                = BitAnd(next_address, kSuperPageBaseMask)
    IN IF for_thread_cache
       THEN no_bit_in_pool_base_mask /\ shadow_ptr_ok /\ not_in_metadata
       ELSE no_bit_in_pool_base_mask /\ shadow_ptr_ok /\ same_super_page
               /\ not_in_metadata

\* GetNextInternal<crash_on_corruption, for_thread_cache>(slot_size) on the
\* entry at here: the pointer returned, or the crash.
GetNextInternal(crash_on_corruption, for_thread_cache, here, next_, shadow_) ==
    IF next_ = kNullptrOffset
    THEN [ret |-> 0, crashed |-> FALSE]
    ELSE LET pool_info == GetPoolInfo(here)
             ret == DecodeFromOffset(next_, pool_info)
         IN IF ~IsWellFormed(for_thread_cache, pool_info, here, ret, next_, shadow_)
            THEN [ret |-> 0, crashed |-> crash_on_corruption]
            ELSE [ret |-> ret, crashed |-> FALSE]

NoFlCall == [call |-> "none", ret |-> 0, crashed |-> FALSE]

FlBuilds == [has_memory_tagging : BOOLEAN, dcheck_is_on : BOOLEAN]

\* No entry: the slot's memory is zero.
NoEntry ==
    /\ fl_here = 0
    /\ fl_next = 0
    /\ fl_shadow = 0
    /\ fl_stored = 0
    /\ fl_last = NoFlCall

FreelistInit == fl_build \in FlBuilds /\ NoEntry

FreelistIdle ==
    /\ fl_build = [has_memory_tagging |-> FALSE, dcheck_is_on |-> FALSE]
    /\ NoEntry

FlRunning == ~fl_last.crashed

\* EmplaceAndInitNull(slot_start); tag is the tag SlotStartAddr2Ptr finds on
\* the slot.
EmplaceAndInitNull(slot_start, tag) ==
    /\ FlRunning
    /\ fl_here = 0
    /\ fl_here' = BitOr(slot_start, tag)
    /\ fl_next' = kNullptrOffset
    /\ fl_shadow' = BitNot(kNullptrOffset)
    /\ fl_stored' = 0
    /\ fl_last' = NoFlCall
    /\ UNCHANGED fl_build
    /\ UNCHANGED not_fl_vars

\* EmplaceAndInitForThreadCache(slot_start, next).
EmplaceAndInitForThreadCache(slot_start, tag, next) ==
    /\ FlRunning
    /\ fl_here = 0
    /\ IF EncodeDCheckFails(next)
       THEN /\ fl_last' = [call |-> "EmplaceAndInitForThreadCache", ret |-> 0,
                           crashed |-> TRUE]
            /\ UNCHANGED <<fl_here, fl_next, fl_shadow, fl_stored>>
       ELSE /\ fl_here' = BitOr(slot_start, tag)
            /\ fl_next' = EncodeToOffset(next)
            /\ fl_shadow' = BitNot(EncodeToOffset(next))
            /\ fl_stored' = next
            /\ fl_last' = NoFlCall
    /\ UNCHANGED fl_build
    /\ UNCHANGED not_fl_vars

\* The PA_DCHECK_IS_ON block of SetNext (lines 114-123).
SetNextDetectsCorruption(here, entry) ==
    /\ fl_build.dcheck_is_on
    /\ entry # 0
    /\ BitAnd(SlotStartPtr2Addr(here), kSuperPageBaseMask)
          # BitAnd(SlotStartPtr2Addr(entry), kSuperPageBaseMask)

\* SetNext(entry).
SetNext(entry) ==
    /\ FlRunning
    /\ fl_here # 0
    /\ IF SetNextDetectsCorruption(fl_here, entry) \/ EncodeDCheckFails(entry)
       THEN /\ fl_last' = [call |-> "SetNext", ret |-> 0, crashed |-> TRUE]
            /\ UNCHANGED <<fl_next, fl_shadow, fl_stored>>
       ELSE /\ fl_next' = EncodeToOffset(entry)
            /\ fl_shadow' = BitNot(EncodeToOffset(entry))
            /\ fl_stored' = entry
            /\ fl_last' = NoFlCall
    /\ UNCHANGED <<fl_build, fl_here>>
    /\ UNCHANGED not_fl_vars

\* GetNext(slot_size) = GetNextInternal<true, false>(slot_size).
GetNext ==
    /\ FlRunning
    /\ fl_here # 0
    /\ LET r == GetNextInternal(TRUE, FALSE, fl_here, fl_next, fl_shadow)
       IN fl_last' = [call |-> "GetNext", ret |-> r.ret, crashed |-> r.crashed]
    /\ UNCHANGED <<fl_build, fl_here, fl_next, fl_shadow, fl_stored>>
    /\ UNCHANGED not_fl_vars

\* GetNextForThreadCache<crash_on_corruption>(slot_size)
\* = GetNextInternal<crash_on_corruption, true>(slot_size).
GetNextForThreadCache(crash_on_corruption) ==
    /\ FlRunning
    /\ fl_here # 0
    /\ LET r == GetNextInternal(crash_on_corruption, TRUE, fl_here, fl_next,
                                fl_shadow)
       IN fl_last' = [call |-> "GetNextForThreadCache", ret |-> r.ret,
                      crashed |-> r.crashed]
    /\ UNCHANGED <<fl_build, fl_here, fl_next, fl_shadow, fl_stored>>
    /\ UNCHANGED not_fl_vars

\* ClearForAllocation(): the slot goes to the user, the entry is no more.
ClearForAllocation ==
    /\ FlRunning
    /\ fl_here # 0
    /\ fl_next' = 0
    /\ fl_shadow' = 0
    /\ fl_here' = 0
    /\ fl_stored' = 0
    /\ fl_last' = NoFlCall
    /\ UNCHANGED fl_build
    /\ UNCHANGED not_fl_vars

\* The entry as EmplaceAndInit* or SetNext wrote it, not read since.
EntryAsWritten ==
    /\ fl_here # 0
    /\ fl_next = EncodeToOffset(fl_stored)
    /\ fl_shadow = BitNot(fl_next)
    /\ fl_last = NoFlCall

\* The shadows a corrupted entry is given: the matching one and one that
\* does not match.  IsWellFormed reads shadow_ through the comparison with
\* ~next_ only.
ShadowInputs(next_) == {BitNot(next_), next_}

\* The slot is written behind the entry's back (a use-after-free, an overflow
\* of the previous slot): next_ and shadow_ are overwritten, whatever they
\* held.  The result does not depend on what the entry held before, so the
\* write is taken on an entry that holds null.
OverwriteEntry(next_, shadow_) ==
    /\ FlRunning
    /\ EntryAsWritten
    /\ fl_next = kNullptrOffset
    /\ fl_next' = next_
    /\ fl_shadow' = shadow_
    /\ fl_stored' = 0
    /\ fl_last' = NoFlCall
    /\ UNCHANGED <<fl_build, fl_here>>
    /\ UNCHANGED not_fl_vars

\* One bit of next_ flips in an entry as EmplaceAndInit* or SetNext wrote it;
\* shadow_ stays.
FlipBit(bit) ==
    /\ FlRunning
    /\ EntryAsWritten
    /\ fl_next' = BitXor(fl_next, 2 ^ bit)
    /\ fl_stored' = 0
    /\ fl_last' = NoFlCall
    /\ UNCHANGED <<fl_build, fl_here, fl_shadow>>
    /\ UNCHANGED not_fl_vars

\* The slot starts and pointers the calls draw from: none when the call's
\* guard on the entry is false.
EmplaceInputs == IF fl_here = 0 /\ FlRunning THEN SlotStarts ELSE {}
EntryInputs(S) == IF fl_here # 0 /\ FlRunning THEN S ELSE {}
CorruptInputs(S) == IF FlRunning /\ EntryAsWritten THEN S ELSE {}

FreelistNext ==
    \/ \E slot_start \in EmplaceInputs : \E tag \in PtrTags :
          EmplaceAndInitNull(slot_start, tag)
    \/ \E slot_start \in EmplaceInputs : \E tag \in PtrTags :
          \E next \in PoolPointers \cup {0} :
             EmplaceAndInitForThreadCache(slot_start, tag, next)
    \/ \E entry \in EntryInputs(PoolPointers \cup {0}) : SetNext(entry)
    \/ GetNext
    \/ \E crash_on_corruption \in BOOLEAN :
          GetNextForThreadCache(crash_on_corruption)
    \/ ClearForAllocation

\* An entry is emplaced, corrupted and read.
FreelistCorruptNext ==
    \/ \E slot_start \in EmplaceInputs : \E tag \in PtrTags :
          EmplaceAndInitNull(slot_start, tag)
    \/ \E slot_start \in EmplaceInputs : \E tag \in PtrTags :
          \E next \in PoolPointers \cup {0} :
             EmplaceAndInitForThreadCache(slot_start, tag, next)
    \/ \E next_ \in CorruptInputs(0 .. (SizeMod - 1)) :
          \E shadow_ \in ShadowInputs(next_) : OverwriteEntry(next_, shadow_)
    \/ \E bit \in CorruptInputs(0 .. (SizeBits - 1)) : FlipBit(bit)
    \/ GetNext
    \/ \E crash_on_corruption \in BOOLEAN :
          GetNextForThreadCache(crash_on_corruption)

-----------------------------------------------------------------------------
(* A freelist chain.                                                       *)
(*                                                                         *)
(* Entries are emplaced in slots of one super-page and linked by SetNext;  *)
(* CheckFreeList walks the chain from a head.  Calls run one at a time:    *)
(* while CheckFreeList is in its loop nothing else writes the entries.     *)

\* The number of slots of the super-page that take part.
MaxChain == 2

\* The super-page: the second one of the non-BRP pool.
ChainSuperPage == non_brp_pool_base_address + kSuperPageSize

\* Its first MaxChain slot starts, after the metadata partition page.
ChainSlots ==
    {ChainSuperPage + PartitionPageSize + i : i \in 0 .. (MaxChain - 1)}

NoChainEntry == [next_ |-> 0, shadow_ |-> 0, emplaced |-> FALSE]

Emplaced == {a \in ChainSlots : ch_mem[a].emplaced}

ChainInit ==
    /\ ch_mem = [a \in ChainSlots |-> NoChainEntry]
    /\ ch_link = [a \in ChainSlots |-> 0]
    /\ ch_pc = "build"
    /\ ch_entry = 0
    /\ ch_visited = {}
    /\ ch_last = "none"

\* EmplaceAndInitNull(slot_start_tagged) on a slot of the super-page.
ChainEmplaceAndInitNull(slot_start) ==
    /\ ch_pc = "build"
    /\ ch_mem' = [ch_mem EXCEPT ![slot_start] =
                     [next_ |-> kNullptrOffset,
                      shadow_ |-> BitNot(kNullptrOffset),
                      emplaced |-> TRUE]]
    /\ ch_link' = [ch_link EXCEPT ![slot_start] = 0]
    /\ UNCHANGED <<ch_pc, ch_entry, ch_visited, ch_last>>
    /\ UNCHANGED not_ch_vars

\* here->SetNext(entry): here is a (tagged) pointer to an emplaced entry.
ChainSetNext(here, entry) ==
    /\ ch_pc = "build"
    /\ SlotStartPtr2Addr(here) \in Emplaced
    /\ IF SetNextDetectsCorruption(here, entry) \/ EncodeDCheckFails(entry)
       THEN /\ ch_pc' = "crashed"
            /\ UNCHANGED <<ch_mem, ch_link>>
       ELSE /\ ch_mem' = [ch_mem EXCEPT ![SlotStartPtr2Addr(here)] =
                             [next_ |-> EncodeToOffset(entry),
                              shadow_ |-> BitNot(EncodeToOffset(entry)),
                              emplaced |-> TRUE]]
            /\ ch_link' = [ch_link EXCEPT ![SlotStartPtr2Addr(here)] = entry]
            /\ UNCHANGED ch_pc
    /\ UNCHANGED <<ch_entry, ch_visited, ch_last>>
    /\ UNCHANGED not_ch_vars

\* h->CheckFreeList(slot_size) is called: entry = this.
CheckFreeList(h) ==
    /\ ch_pc = "build"
    /\ SlotStartPtr2Addr(h) \in Emplaced
    /\ ch_pc' = "walk"
    /\ ch_entry' = h
    /\ ch_visited' = {}
    /\ ch_last' = "none"
    /\ UNCHANGED <<ch_mem, ch_link>>
    /\ UNCHANGED not_ch_vars

\* One turn of CheckFreeList's loop: entry = entry->GetNext(slot_size), and
\* the loop ends when entry is null.
CheckFreeListStep ==
    /\ ch_pc = "walk"
    /\ \E a \in {SlotStartPtr2Addr(ch_entry)} :
       \E r \in {GetNextInternal(TRUE, FALSE, ch_entry, ch_mem[a].next_,
                                  ch_mem[a].shadow_)} :
          /\ ch_visited' = ch_visited \cup {a}
          /\ IF r.crashed
             THEN /\ ch_pc' = "crashed"
                  /\ ch_last' = "crash"
                  /\ UNCHANGED ch_entry
             ELSE IF r.ret = 0
             THEN /\ ch_pc' = "build"
                  /\ ch_last' = "null"
                  /\ ch_entry' = 0
             ELSE IF SlotStartPtr2Addr(r.ret) \in ChainSlots
             THEN /\ ch_entry' = r.ret
                  /\ UNCHANGED <<ch_pc, ch_last>>
             ELSE \* the walk left the slots under study
                  /\ ch_pc' = "crashed"
                  /\ ch_last' = "left"
                  /\ UNCHANGED ch_entry
    /\ UNCHANGED <<ch_mem, ch_link>>
    /\ UNCHANGED not_ch_vars

\* The pointers to the emplaced entries, with the tags the build has.
EntryPointers == {BitOr(a, tg) : a \in Emplaced, tg \in PtrTags}

ChainNext ==
    \/ \E slot_start \in ChainSlots : ChainEmplaceAndInitNull(slot_start)
    \/ \E here \in EntryPointers, entry \in EntryPointers \cup {0} :
          ChainSetNext(here, entry)
    \/ \E h \in EntryPointers : CheckFreeList(h)
    \/ CheckFreeListStep

-----------------------------------------------------------------------------
(* AddressPoolManager: the table of pools behind the handles.              *)
(*                                                                         *)
(* pools_ is indexed by handle here (the code's pools_[handle - 1]).  A    *)
(* failed DCHECK, CHECK or NOTREACHED ends the process; without DCHECKs    *)
(* an invalid handle is undefined behaviour (an index outside pools_, a    *)
(* call through a null Pool pointer), which either faults or carries on.  *)

\* The number of handle slots.
kNumPools == 3
Handles == 1 .. kNumPools

CageBuilds == [dcheck_is_on : BOOLEAN, use_backup_ref_ptr : BOOLEAN]

\* A slot of pools_ that holds no Pool.
NoPool == [address_begin |-> 0, total_bits |-> 0, alloc_bitset |-> <<>>,
           bit_hint |-> 0]

\* Pool::Pool(ptr, length).
NewPool(ptr, length) ==
    [address_begin |-> ptr,
     total_bits |-> length \div kSuperPageSize,
     alloc_bitset |-> [i \in 0 .. (length \div kSuperPageSize - 1) |-> FALSE],
     bit_hint |-> 0]

\* The outer loop of FindChunk on a pool of `total` bits.
RECURSIVE FindChunkLoop(_, _, _, _, _, _)
FindChunkLoop(bits, total, need_bits, beg, curr, hint) ==
    LET end_bit == beg + need_bits IN
    IF end_bit > total
    THEN [found |-> FALSE, beg_bit |-> beg, end_bit |-> end_bit, bit_hint |-> hint]
    ELSE LET r == ScanInner(bits, beg, curr, end_bit, TRUE, hint) IN
         IF r.found
         THEN [found |-> TRUE, beg_bit |-> r.beg_bit, end_bit |-> end_bit,
               bit_hint |-> r.bit_hint]
         ELSE FindChunkLoop(bits, total, need_bits, r.beg_bit, r.curr_bit,
                            r.bit_hint)

\* pool->FindChunk(requested_size): the pool afterwards and the address
\* returned (0: no chunk).
PoolFindChunk(pool, requested_size) ==
    LET r == FindChunkLoop(pool.alloc_bitset, pool.total_bits,
                           NeedBits(requested_size), pool.bit_hint,
                           pool.bit_hint, pool.bit_hint)
    IN IF r.found
       THEN [pool |-> [pool EXCEPT
                         !.alloc_bitset =
                             [i \in DOMAIN pool.alloc_bitset |->
                                 pool.alloc_bitset[i]
                                    \/ (r.beg_bit <= i /\ i < r.end_bit)],
                         !.bit_hint = HintAfterFill(r.bit_hint, r.beg_bit,
                                                    r.end_bit)],
             ret |-> (pool.address_begin + r.beg_bit * kSuperPageSize) % SizeMod]
       ELSE [pool |-> [pool EXCEPT !.bit_hint = r.bit_hint], ret |-> 0]

\* pool->FreeChunk(address, free_size): the pool afterwards.
PoolFreeChunk(pool, address, free_size) ==
    LET beg_bit == (address - pool.address_begin) \div kSuperPageSize
        end_bit == beg_bit + Align(free_size, kSuperPageSize) \div kSuperPageSize
    IN [pool EXCEPT
          !.alloc_bitset = [i \in DOMAIN pool.alloc_bitset |->
                               pool.alloc_bitset[i]
                                  /\ ~(beg_bit <= i /\ i < end_bit)],
          !.bit_hint = HintAfterFree(pool.bit_hint, beg_bit)]

\* Taking the first slot whether or not it is empty.
FirstFreeSlot_Always1(pools) == 1

\* The first empty slot of pools_, 0 when every slot is taken (the loop of
\* Add).
FirstFreeSlot(pools) ==
    IF \A i \in Handles : pools[i] # NoPool THEN 0
    ELSE CHOOSE i \in Handles :
            /\ pools[i] = NoPool
            /\ \A j \in Handles : j < i => pools[j] # NoPool

\* DCHECK(0 < handle && handle <= kNumPools).
HandleInRange(handle) == 0 < handle /\ handle <= kNumPools

\* GetPool(handle) gives a Pool.
GetPoolSucceeds(handle) == HandleInRange(handle) /\ pools_[handle] # NoPool

NoApmCall ==
    [op |-> "none", handle |-> 0, length |-> 0, ret |-> 0, outcome |-> "none"]

ApmCall(op, handle, length, ret, outcome) ==
    [op |-> op, handle |-> handle, length |-> length, ret |-> ret,
     outcome |-> outcome]

\* What Add does to pools_ and what it returns (0: every slot is taken).
AddTo(pools, ptr, length) ==
    LET i == FirstFreeSlot(pools) IN
    IF i # 0
    THEN [pools |-> [pools EXCEPT ![i] = NewPool(ptr, length)], ret |-> i]
    ELSE [pools |-> pools, ret |-> 0]

\* The process is running: no check has failed, no fault has happened.
ApmRunning == apm_last.outcome \notin {"check", "fault"}

\* What undefined behaviour may turn into.
UndefinedOutcomes == {"fault", "undefined"}

ManagerInit ==
    /\ pools_ = [h \in Handles |-> NoPool]
    /\ apm_last = NoApmCall

\* AddressPoolManager::Add(ptr, length).
Add(ptr, length) ==
    /\ ApmRunning
    /\ LET r == AddTo(pools_, ptr, length) IN
       /\ pools_' = r.pools
       /\ apm_last' = ApmCall("Add", r.ret, length, r.ret,
                          IF r.ret = 0 /\ cage_build.dcheck_is_on
                          THEN "check" ELSE "ok")
    /\ UNCHANGED cage_build
    /\ UNCHANGED not_apm_vars

\* AddressPoolManager::ResetForTesting().
ResetForTesting ==
    /\ ApmRunning
    /\ pools_' = [h \in Handles |-> NoPool]
    /\ apm_last' = ApmCall("ResetForTesting", 0, 0, 0, "ok")
    /\ UNCHANGED cage_build
    /\ UNCHANGED not_apm_vars

\* AddressPoolManager::Remove(handle).
Remove(handle) ==
    /\ ApmRunning
    /\ IF HandleInRange(handle)
       THEN /\ pools_' = [pools_ EXCEPT ![handle] = NoPool]
            /\ apm_last' = ApmCall("Remove", handle, 0, 0, "ok")
       ELSE /\ UNCHANGED pools_
            /\ IF cage_build.dcheck_is_on
               THEN apm_last' = ApmCall("Remove", handle, 0, 0, "check")
               ELSE \E o \in UndefinedOutcomes :
                       apm_last' = ApmCall("Remove", handle, 0, 0, o)
    /\ UNCHANGED cage_build
    /\ UNCHANGED not_apm_vars

\* GetPool(handle) with a handle that gives no Pool: the DCHECK, or what
\* follows from the bad index or the null Pool*.
GetPoolFails(op, handle, length) ==
    /\ UNCHANGED pools_
    /\ IF cage_build.dcheck_is_on
       THEN apm_last' = ApmCall(op, handle, length, 0, "check")
       ELSE \E o \in UndefinedOutcomes :
               apm_last' = ApmCall(op, handle, length, 0, o)

\* AddressPoolManager::Alloc(handle, length).
Alloc(handle, length) ==
    /\ ApmRunning
    /\ IF GetPoolSucceeds(handle)
       THEN LET r == PoolFindChunk(pools_[handle], length) IN
            /\ pools_' = [pools_ EXCEPT ![handle] = r.pool]
            /\ apm_last' = ApmCall("Alloc", handle, length, r.ret, "ok")
       ELSE GetPoolFails("Alloc", handle, length)
    /\ UNCHANGED cage_build
    /\ UNCHANGED not_apm_vars

\* The caller of Free holds [ptr, ptr + length): super-pages of the pool
\* that are marked as handed out (the DCHECKs of FreeChunk).
HoldsRegion(pool, ptr, length) ==
    LET beg_bit == (ptr - pool.address_begin) \div kSuperPageSize
        end_bit == beg_bit + length \div kSuperPageSize
    IN /\ ptr >= pool.address_begin
       /\ (ptr - pool.address_begin) % kSuperPageSize = 0
       /\ length % kSuperPageSize = 0
       /\ end_bit <= pool.total_bits
       /\ \A i \in beg_bit .. (end_bit - 1) : pool.alloc_bitset[i]

\* AddressPoolManager::Free(handle, ptr, length).
Free(handle, ptr, length) ==
    /\ ApmRunning
    /\ IF GetPoolSucceeds(handle)
       THEN /\ HoldsRegion(pools_[handle], ptr, length)
            /\ pools_' = [pools_ EXCEPT ![handle] =
                             PoolFreeChunk(pools_[handle], ptr, length)]
            /\ apm_last' = ApmCall("Free", handle, length, 0, "ok")
       ELSE GetPoolFails("Free", handle, length)
    /\ UNCHANGED cage_build
    /\ UNCHANGED not_apm_vars

\* The handles callers pass: 0, the slots, and one past the last slot.
AnyHandle == 0 .. (kNumPools + 1)

\* The regions Add is given, one super-page each.
AddRegions == {2 * kSuperPageSize, 3 * kSuperPageSize}

ManagerNext ==
    \/ \E ptr \in AddRegions : Add(ptr, kSuperPageSize)
    \/ ResetForTesting
    \/ \E handle \in AnyHandle : Remove(handle)
    \/ \E handle \in AnyHandle : Alloc(handle, 1)
    \/ \E handle \in AnyHandle, ptr \in AddRegions :
          Free(handle, ptr, kSuperPageSize)

-----------------------------------------------------------------------------
(* PartitionAddressSpace: the reserved region and its pools.               *)
(*                                                                         *)
(* Init reserves one region, aligns a base inside it and registers two     *)
(* pools back to back: the first is the non-BRP pool, the second the BRP   *)
(* pool.  The configurable pool sits outside the region, at an address     *)
(* the embedder chooses.                                                   *)

\* kConfigurablePoolSize, scaled down to one super-page.
kConfigurablePoolSize == kSuperPageSize
kConfigurablePoolOffsetMask == kConfigurablePoolSize - 1
kConfigurablePoolBaseMask == BitNot(kConfigurablePoolOffsetMask)

\* The two pools of the region, one after the other.
kDesiredAddressSpaceSize == kPoolSize + kPoolSize
\* A power of two, not below the desired size and less than twice of it.
kReservedAddressSpaceAlignment == kDesiredAddressSpaceSize
kReservedAddressSpaceOffsetMask == kReservedAddressSpaceAlignment - 1
kReservedAddressSpaceSize == 2 * kReservedAddressSpaceAlignment

\* The unit in which the system hands out address space.
PageAllocationGranularity == 2 ^ (kSuperPageShift - 1)

\* A GigaCageSetup whose base addresses start at 0.
NoSetup_ZeroBase ==
    [non_brp_pool_base_address_ |-> 0,
     brp_pool_base_address_ |-> 0,
     configurable_pool_base_address_ |-> 0,
     non_brp_pool_ |-> 0,
     brp_pool_ |-> 0,
     configurable_pool_ |-> 0]

\* GigaCageSetup as constructed.
NoSetup ==
    [non_brp_pool_base_address_ |-> kPoolOffsetMask,
     brp_pool_base_address_ |-> kPoolOffsetMask,
     configurable_pool_base_address_ |-> kConfigurablePoolOffsetMask,
     non_brp_pool_ |-> 0,
     brp_pool_ |-> 0,
     configurable_pool_ |-> 0]

\* PartitionAddressSpace::IsInitialized().
IsInitialized == setup_.non_brp_pool_ # 0

\* PartitionAddressSpace::IsConfigurablePoolInitialized().
IsConfigurablePoolInitialized ==
    setup_.configurable_pool_base_address_ # kConfigurablePoolOffsetMask

\* PartitionAddressSpace::IsInNonBRPPool(address), on setup_.
CageIsInNonBRPPool(address) ==
    BitAnd(address, kPoolBaseMask) = setup_.non_brp_pool_base_address_

\* PartitionAddressSpace::IsInBRPPool(address), on setup_.
CageIsInBRPPool(address) ==
    BitAnd(address, kPoolBaseMask) = setup_.brp_pool_base_address_

\* PartitionAddressSpace::IsInConfigurablePool(address).
IsInConfigurablePool(address) ==
    BitAnd(address, kConfigurablePoolBaseMask)
        = setup_.configurable_pool_base_address_

\* IsManagedByPartitionAlloc(address): the classifier.
IsManagedByPartitionAlloc(address) ==
    \/ CageIsInNonBRPPool(address)
    \/ cage_build.use_backup_ref_ptr /\ CageIsInBRPPool(address)
    \/ IsInConfigurablePool(address)

\* PartitionAddressSpace::GetPoolAndOffset(address).
GetPoolAndOffset(address) ==
    IF ~cage_build.use_backup_ref_ptr /\ cage_build.dcheck_is_on
           /\ CageIsInBRPPool(address)
    THEN [pool |-> 0, offset |-> 0, outcome |-> "check"]
    ELSE IF CageIsInNonBRPPool(address)
    THEN [pool |-> setup_.non_brp_pool_,
          offset |-> address - setup_.non_brp_pool_base_address_,
          outcome |-> "ok"]
    ELSE IF cage_build.use_backup_ref_ptr /\ CageIsInBRPPool(address)
    THEN [pool |-> setup_.brp_pool_,
          offset |-> address - setup_.brp_pool_base_address_,
          outcome |-> "ok"]
    ELSE IF IsInConfigurablePool(address)
    THEN [pool |-> setup_.configurable_pool_,
          offset |-> address - setup_.configurable_pool_base_address_,
          outcome |-> "ok"]
    ELSE [pool |-> 0, offset |-> address,
          outcome |-> IF cage_build.dcheck_is_on THEN "check" ELSE "ok"]

\* Where SystemAllocPages may put the region: below, at and above an
\* aligned address.
ReservationStarts ==
    {1, kReservedAddressSpaceAlignment, kReservedAddressSpaceAlignment + 1}

\* Where the embedder puts the configurable pool.
ConfigurablePoolAddresses == {SizeMod - 2 * kConfigurablePoolSize}

CageInit ==
    /\ cage_build \in CageBuilds
    /\ ManagerInit
    /\ reserved_address_start_ = 0
    /\ setup_ = NoSetup

\* PartitionAddressSpace::Init(), the region landing at `start`.
Init(start) ==
    /\ ApmRunning
    /\ reserved_address_start_ = 0
    /\ start # 0
    /\ LET reserved_base_address_ == Align(start, kReservedAddressSpaceAlignment)
           first == AddTo(pools_, reserved_base_address_, kPoolSize)
           second == AddTo(first.pools, reserved_base_address_ + kPoolSize,
                           kPoolSize)
       IN /\ reserved_base_address_ >= start
          /\ BitAnd(reserved_base_address_, kReservedAddressSpaceOffsetMask) = 0
          /\ first.ret # 0
          /\ second.ret # 0
          /\ reserved_base_address_ + kPoolSize + kPoolSize
                <= start + kReservedAddressSpaceSize
          /\ reserved_address_start_' = start
          /\ pools_' = second.pools
          /\ setup_' = [setup_ EXCEPT
                          !.non_brp_pool_base_address_ = reserved_base_address_,
                          !.non_brp_pool_ = first.ret,
                          !.brp_pool_base_address_ =
                              reserved_base_address_ + kPoolSize,
                          !.brp_pool_ = second.ret]
          /\ apm_last' = ApmCall("Add", second.ret, kPoolSize, second.ret, "ok")
    /\ UNCHANGED cage_build
    /\ UNCHANGED not_cage_vars

\* The addresses of the reserved region.
InReservedRegion(address) ==
    /\ reserved_address_start_ # 0
    /\ reserved_address_start_ <= address
    /\ address < reserved_address_start_ + kReservedAddressSpaceSize

\* PartitionAddressSpace::InitConfigurablePool(address, size).
InitConfigurablePool(address, size) ==
    /\ ApmRunning
    /\ IsInitialized
    /\ ~IsConfigurablePoolInitialized
    /\ address # 0
    /\ size = kConfigurablePoolSize
    /\ address % size = 0
    /\ ~InReservedRegion(address)
    /\ LET r == AddTo(pools_, address, size) IN
       /\ r.ret # 0
       /\ pools_' = r.pools
       /\ setup_' = [setup_ EXCEPT !.configurable_pool_base_address_ = address,
                                   !.configurable_pool_ = r.ret]
       /\ apm_last' = ApmCall("Add", r.ret, size, r.ret, "ok")
    /\ UNCHANGED <<cage_build, reserved_address_start_>>
    /\ UNCHANGED not_cage_vars

\* PartitionAddressSpace::UninitForTesting().
UninitForTesting ==
    /\ ApmRunning
    /\ reserved_address_start_ # 0
    /\ reserved_address_start_' = 0
    /\ setup_' = NoSetup
    /\ pools_' = [h \in Handles |-> NoPool]
    /\ apm_last' = ApmCall("ResetForTesting", 0, 0, 0, "ok")
    /\ UNCHANGED cage_build
    /\ UNCHANGED not_cage_vars

\* The pools the allocator takes chunks from: the BRP pool only in a build
\* that uses BackupRefPtr.
PoolsInUse ==
    ({setup_.non_brp_pool_, setup_.configurable_pool_}
        \cup (IF cage_build.use_backup_ref_ptr THEN {setup_.brp_pool_} ELSE {}))
    \ {0}

\* The sizes asked of Alloc: one super-page or less, more than one, a whole
\* pool, and a size whose round-up to a super-page leaves size_t.
CageRequestSizes == {1, kSuperPageSize + 1, kPoolSize, SizeMod - 1}

\* The regions given back to Free.
CageFreeRegions(pool) ==
    {<<pool.address_begin + i * kSuperPageSize, n * kSuperPageSize>> :
        i \in DOMAIN pool.alloc_bitset, n \in 1 .. 2}

CageNext ==
    \/ \E start \in ReservationStarts : Init(start)
    \/ \E address \in ConfigurablePoolAddresses :
          InitConfigurablePool(address, kConfigurablePoolSize)
    \/ UninitForTesting
    \/ \E handle \in PoolsInUse : \E length \in CageRequestSizes :
          Alloc(handle, length)
    \/ \E handle \in PoolsInUse : \E reg \in CageFreeRegions(pools_[handle]) :
          Free(handle, reg[1], reg[2])

-----------------------------------------------------------------------------
(* The address arithmetic of PartitionAddressSpace::Init, for any          *)
(* reservation start and any constants the static_asserts accept.          *)

NoLayout == [base |-> 0, current |-> 0, reserved_address_end |-> 0]
NoLayoutInput == [start |-> 0, alignment |-> 1, desired |-> 1, reserved |-> 1]

AlignIdle == al_in = NoLayoutInput /\ al_out = NoLayout

\* The largest alignment tried is 2 ^ MaxAlignShift.
MaxAlignShift == 3

IsPowerOfTwo(x) == x \in {2 ^ i : i \in 0 .. SizeBits}

\* The static_asserts on the constants.
StaticAssertsHold(alignment, desired, reserved) ==
    /\ IsPowerOfTwo(alignment)
    /\ alignment >= desired
    /\ alignment \div 2 < desired
    /\ reserved > alignment

\* A reservation start with constants the static_asserts accept; the
\* region ends inside the address space.
LayoutInputs ==
    {in \in [start : 1 .. 2 ^ (MaxAlignShift + 1),
             alignment : {2 ^ i : i \in 0 .. MaxAlignShift},
             desired : 1 .. 2 ^ MaxAlignShift,
             reserved : 2 .. (2 ^ (MaxAlignShift + 1) + 1)] :
        /\ StaticAssertsHold(in.alignment, in.desired, in.reserved)
        /\ in.reserved <= 2 * in.alignment + 1
        /\ in.start + in.reserved < SizeMod}

AlignInit == al_in \in LayoutInputs /\ al_out = NoLayout

\* The addresses PartitionAddressSpace::Init computes: reserved_address_end,
\* reserved_base_address_, and current after the pools have been added.
InitLayout ==
    /\ al_out = NoLayout
    /\ al_in # NoLayoutInput
    /\ LET base == Align(al_in.start, al_in.alignment) IN
       al_out' = [base |-> base,
                  current |-> (base + al_in.desired) % SizeMod,
                  reserved_address_end |-> (al_in.start + al_in.reserved) % SizeMod]
    /\ UNCHANGED al_in
    /\ UNCHANGED not_al_vars

AlignNext == InitLayout

-----------------------------------------------------------------------------
(* SchedulerLoopQuarantineRuntimeStats and its BucketStats.                *)
(*                                                                         *)
(* A BucketStats is a rolling window of kMaxTimesToTrack durations with    *)
(* their running sum and integer average.  The tracker keeps one zap, one  *)
(* purge and one total-time BucketStats for every size bucket; the model   *)
(* follows one size bucket and leaves ReportedStats to the BucketStats     *)
(* called directly.  Times are TimeTicks in microseconds, 0 being the null *)
(* TimeTicks; durations are recorded in nanoseconds.                       *)

\* The window length (1024 in the source), scaled.
kMaxTimesToTrack == 2
\* The largest duration RecordValue is given directly, in nanoseconds.
MaxValueNs == 2
\* paused_ and cycled_ are followed up to this value.
MaxCount == 1
\* sum_ns_ is followed up to this much above the sum of the window.
MaxDrift == 1
\* The clock is followed up to this time.
MaxTime == 5
\* The largest delta InitOrResetStats is given, in microseconds.
MaxDelta == 1

\* base::Time::kNanosecondsPerMicrosecond (1000), scaled.
kNanosecondsPerMicrosecond == 2

\* TimeDelta::InNanoseconds: a TimeDelta holds microseconds.
InNanoseconds(delta) == delta * kNanosecondsPerMicrosecond

\* base::Nanoseconds(n): the TimeDelta of n nanoseconds, whole microseconds.
Nanoseconds(ns) == ns \div kNanosecondsPerMicrosecond

WindowIndexes == 0 .. (kMaxTimesToTrack - 1)

\* A BucketStats as its member initializers leave it.
NewBucketStats == [paused |-> 0, cycled |-> 0, valid |-> FALSE, idx |-> 0, reported_idx |-> kMaxTimesToTrack - 1, sum_ns |-> 0, average_ns |-> 0, bucket_times |-> [i \in WindowIndexes |-> 0]]

IncreasePaused(b) == [b EXCEPT !.paused = @ + 1]

Reset(b) == [b EXCEPT !.valid = FALSE, !.idx = 0, !.sum_ns = 0, !.average_ns = 0, !.reported_idx = kMaxTimesToTrack - 1]

\* Faulty variant: a Reported that moves reported_idx_ whatever valid_ says.
Reported_Always(b) == [b EXCEPT !.paused = 0, !.cycled = 0, !.reported_idx = b.idx]

Reported(b) == IF b.valid THEN [b EXCEPT !.paused = 0, !.cycled = 0, !.reported_idx = b.idx] ELSE b

NextIdx(idx) == IF idx = kMaxTimesToTrack - 1 THEN 0 ELSE idx + 1

RecordValue(b, value_ns) ==
    LET sum == b.sum_ns + (IF value_ns # 0 THEN value_ns ELSE 1)
                        - (IF b.valid THEN b.bucket_times[b.idx] ELSE 0)
        hit == b.idx = b.reported_idx
        valid == b.valid \/ hit
    IN  [b EXCEPT !.sum_ns = sum,
                  !.bucket_times[b.idx] = value_ns,
                  !.valid = valid,
                  !.cycled = IF hit THEN @ + 1 ELSE @,
                  !.idx = NextIdx(b.idx),
                  !.average_ns = IF valid THEN sum \div kMaxTimesToTrack ELSE @]

\* ---- one BucketStats called directly ----

\* No call yet.  records counts the RecordValue calls since construction or
\* the last Reset, up to one past the window length.
NoBucketCall == [op |-> "none", value_ns |-> 0, records |-> 0]

BucketInit == bucket = NewBucketStats /\ bucket_last = NoBucketCall

RECURSIVE SumUpTo(_, _)
\* bucket_times_[0] + ... + bucket_times_[n - 1]
SumUpTo(times, n) == IF n = 0 THEN 0 ELSE times[n - 1] + SumUpTo(times, n - 1)

\* The samples sum_ns_ is the sum of: the whole window once it has been
\* filled, the samples recorded since the last Reset before that.
WindowSum(b) == SumUpTo(b.bucket_times, IF b.valid THEN kMaxTimesToTrack ELSE b.idx)

\* The counters stay within what the model follows.
Followed(b) == b.paused <= MaxCount /\ b.cycled <= MaxCount /\ b.sum_ns <= WindowSum(b) + MaxDrift

BucketCall(call, after) ==
    /\ Followed(after)
    /\ bucket' = after
    /\ bucket_last' = call
    /\ UNCHANGED <<stats, stats_last, not_st_vars>>

BucketRecordValue(value_ns) == BucketCall([op |-> "RecordValue", value_ns |-> value_ns, records |-> IF bucket_last.records > kMaxTimesToTrack THEN bucket_last.records ELSE bucket_last.records + 1], RecordValue(bucket, value_ns))

BucketIncreasePaused == BucketCall([NoBucketCall EXCEPT !.op = "IncreasePaused", !.records = bucket_last.records], IncreasePaused(bucket))

BucketReset == BucketCall([NoBucketCall EXCEPT !.op = "Reset"], Reset(bucket))

BucketReported == BucketCall([NoBucketCall EXCEPT !.op = "Reported", !.records = bucket_last.records], Reported(bucket))

BucketNext ==
    \/ \E value_ns \in 0 .. MaxValueNs : BucketRecordValue(value_ns)
    \/ BucketIncreasePaused
    \/ BucketReset
    \/ BucketReported

\* ---- the tracker ----

NullTime == 0

Times == 1 .. MaxTime

Deltas == 0 .. MaxDelta

\* The tracker as constructed: nothing is allocated before InitOrResetStats.
NewStats == [initialized |-> FALSE, max_above_avg_zap_delta |-> 0, long_zap_pause_delta |-> 0, pause_until |-> NullTime, zap |-> NewBucketStats, purge |-> NewBucketStats, total |-> NewBucketStats]

NoStatsCall == [op |-> "none", start |-> NullTime, result |-> FALSE]

StatsInit == stats = NewStats /\ stats_last = NoStatsCall

StatsIdle == BucketInit /\ StatsInit

LongZap_Never(zap_time, average_ns, delta) == FALSE

\* Line 55: is the zap time above the average by more than the delta?
LongZap(zap_time, average_ns, delta) == zap_time - Nanoseconds(average_ns) > delta

\* Line 59.
PauseUntil(quarantine_end, delta) == quarantine_end + delta

AddStats(s, m) ==
    IF ~s.initialized THEN s ELSE
    LET total == RecordValue(s.total, InNanoseconds(m.quarantine_end - m.quarantine_start))
        average_ns == s.zap.average_ns
        zapped_ == m.zap_start # NullTime
        zap_time == IF zapped_ THEN m.quarantine_end - m.zap_start ELSE 0
        purge == IF zapped_ THEN RecordValue(s.purge, InNanoseconds(m.zap_start - m.purge_start))
                 ELSE IF m.purge_start # NullTime THEN RecordValue(s.purge, InNanoseconds(m.quarantine_end - m.purge_start))
                 ELSE s.purge
        zap == IF zapped_ THEN RecordValue(s.zap, InNanoseconds(zap_time)) ELSE s.zap
        should_pause_on_long_zap == s.max_above_avg_zap_delta # 0 /\ zap_time # 0
        pause == /\ zap.valid
                 /\ should_pause_on_long_zap
                 /\ LongZap(zap_time, average_ns, s.max_above_avg_zap_delta)
    IN  [s EXCEPT !.total = total,
                  !.purge = purge,
                  !.zap = IF pause THEN IncreasePaused(zap) ELSE zap,
                  !.pause_until = IF pause THEN PauseUntil(m.quarantine_end, s.long_zap_pause_delta) ELSE @]

InitOrResetStats(s, pause_delay, max_above_avg_zap_delta) ==
    [s EXCEPT !.initialized = TRUE,
              !.zap = IF s.initialized THEN Reset(@) ELSE NewBucketStats,
              !.purge = IF s.initialized THEN Reset(@) ELSE NewBucketStats,
              !.total = IF s.initialized THEN Reset(@) ELSE NewBucketStats,
              !.long_zap_pause_delta = pause_delay,
              !.max_above_avg_zap_delta = max_above_avg_zap_delta]

ShouldPause(s, start) ==
    IF ~s.initialized \/ s.pause_until = NullTime \/ start = NullTime
    THEN FALSE
    ELSE start < s.pause_until

\* What a ThreadScopedStatTracker hands to AddStats.  Every call takes
\* MaxTime - 2 ticks.  It either does nothing else, or purges from its start
\* and zaps, the zap taking the last tick or all the ticks but the first.
QuarantineTime == MaxTime - 2

ZapSample(quarantine_start, zap_start) == [quarantine_start |-> quarantine_start, purge_start |-> quarantine_start, zap_start |-> zap_start, quarantine_end |-> quarantine_start + QuarantineTime]

IdleSample(quarantine_start) == [quarantine_start |-> quarantine_start, purge_start |-> NullTime, zap_start |-> NullTime, quarantine_end |-> quarantine_start + QuarantineTime]

Samples == UNION {{IdleSample(t), ZapSample(t, t + 1), ZapSample(t, t + QuarantineTime - 1)} : t \in 1 .. (MaxTime - QuarantineTime)}

\* The times ShouldPause is asked about.
QueryTimes == {NullTime, MaxTime - 1, MaxTime}

StatsFollowed(s) == Followed(s.zap) /\ Followed(s.purge) /\ Followed(s.total)

StatsCall(call, after) ==
    /\ StatsFollowed(after)
    /\ stats' = after
    /\ stats_last' = call
    /\ UNCHANGED <<bucket, bucket_last, not_st_vars>>

StatsAddStats(m) == StatsCall([NoStatsCall EXCEPT !.op = "AddStats"], AddStats(stats, m))

StatsInitOrResetStats(pause_delay, max_above_avg_zap_delta) == StatsCall([NoStatsCall EXCEPT !.op = "InitOrResetStats"], InitOrResetStats(stats, pause_delay, max_above_avg_zap_delta))

StatsShouldPause(start) == StatsCall([NoStatsCall EXCEPT !.op = "ShouldPause", !.start = start, !.result = ShouldPause(stats, start)], stats)

StatsNext ==
    \/ \E m \in Samples : StatsAddStats(m)
    \/ \E pause_delay \in Deltas, max_above_avg_zap_delta \in Deltas : StatsInitOrResetStats(pause_delay, max_above_avg_zap_delta)
    \/ \E start \in QueryTimes : StatsShouldPause(start)

-----------------------------------------------------------------------------
(* LeakySingleton<T, Constructor> of the allocator shim.                   *)
(*                                                                         *)
(* Callers run Get() concurrently; Replace is not called.  Every atomic    *)
(* access is one step.  The memory orders are modelled by what a caller    *)
(* has synchronized with: `sees` says that the writes of Constructor::New  *)
(* happen before the caller's next access.  An acquire load that reads the *)
(* pointer stored with release makes it true, and so does the acquiring    *)
(* CAS on the lock when the release store that freed the lock came from a  *)
(* caller that saw them.  A load by a caller that has not synchronized     *)
(* with the store of instance_ may still read the initial null.  A failed  *)
(* compare_exchange_weak changes nothing and is no step of the model.      *)

\* The callers of Get().
MaxCallers == 3

Callers == 1 .. MaxCallers

\* instance_ before the first store; an instance is the number of the
\* Constructor::New call that made it.
NullInstance == 0

NoLsLocal == [instance |-> NullInstance, sees |-> FALSE, ret |-> NullInstance, path |-> "none"]

SingletonInit ==
    /\ instance_ = NullInstance
    /\ initialization_lock_ = [held |-> FALSE, sees |-> FALSE]
    /\ ls_news = 0
    /\ ls_pc = [t \in Callers |-> "idle"]
    /\ ls_local = [t \in Callers |-> NoLsLocal]

SingletonIdle == SingletonInit

\* What a load of instance_ can read: the last value stored, or the initial
\* null as long as the caller has not synchronized with a store.
LoadValues(sees) == IF sees THEN {instance_} ELSE {NullInstance, instance_}

\* Faulty variant: a relaxed load on the fast path.
SeesAfterLoad_Relaxed(sees, instance) == sees

\* instance_.load(std::memory_order_acquire) (line 77): reading the pointer
\* synchronizes with the release store that published it.
SeesAfterLoad(sees, instance) == sees \/ instance # NullInstance

\* Faulty variant: a slow path without the second look at instance_.
BeatenTo_Never(instance) == FALSE

\* "Someone beat us" (lines 134-137).
BeatenTo(instance) == instance # NullInstance

\* Get() is called.
Get(t) ==
    /\ ls_pc[t] = "idle"
    /\ ls_pc' = [ls_pc EXCEPT ![t] = "load"]
    /\ ls_local' = [ls_local EXCEPT ![t].instance = NullInstance, ![t].ret = NullInstance, ![t].path = "none"]
    /\ UNCHANGED <<instance_, initialization_lock_, ls_news, not_ls_vars>>

\* The fast path (lines 77-80): the acquire load, and the return when the
\* pointer is set.
GetLoad(t) ==
    /\ ls_pc[t] = "load"
    /\ \E instance \in LoadValues(ls_local[t].sees) :
          IF instance # NullInstance
          THEN /\ ls_pc' = [ls_pc EXCEPT ![t] = "idle"]
               /\ ls_local' = [ls_local EXCEPT ![t].instance = instance, ![t].sees = SeesAfterLoad(@, instance), ![t].ret = instance, ![t].path = "fast"]
          ELSE /\ ls_pc' = [ls_pc EXCEPT ![t] = "lock"]
               /\ UNCHANGED ls_local
    /\ UNCHANGED <<instance_, initialization_lock_, ls_news, not_ls_vars>>

\* SimpleScopedSpinLocker's constructor (lines 45-56): the CAS that
\* succeeds, with acquire order.
GetLock(t) ==
    /\ ls_pc[t] = "lock"
    /\ ~initialization_lock_.held
    /\ initialization_lock_' = [initialization_lock_ EXCEPT !.held = TRUE]
    /\ ls_local' = [ls_local EXCEPT ![t].sees = @ \/ initialization_lock_.sees]
    /\ ls_pc' = [ls_pc EXCEPT ![t] = "check"]
    /\ UNCHANGED <<instance_, ls_news, not_ls_vars>>

\* The relaxed load under the lock (lines 133-137).
GetCheck(t) ==
    /\ ls_pc[t] = "check"
    /\ \E instance \in LoadValues(ls_local[t].sees) :
          /\ ls_local' = [ls_local EXCEPT ![t].instance = instance, ![t].path = IF BeatenTo(instance) THEN "beaten" ELSE "built"]
          /\ ls_pc' = [ls_pc EXCEPT ![t] = IF BeatenTo(instance) THEN "unlock" ELSE "new"]
    /\ UNCHANGED <<instance_, initialization_lock_, ls_news, not_ls_vars>>

\* Constructor::New(instance_buffer_) (line 139).
GetNew(t) ==
    /\ ls_pc[t] = "new"
    /\ ls_news' = ls_news + 1
    /\ ls_local' = [ls_local EXCEPT ![t].instance = ls_news + 1, ![t].sees = TRUE]
    /\ ls_pc' = [ls_pc EXCEPT ![t] = "store"]
    /\ UNCHANGED <<instance_, initialization_lock_, not_ls_vars>>

\* instance_.store(instance, std::memory_order_release) (line 140).
GetStore(t) ==
    /\ ls_pc[t] = "store"
    /\ instance_' = ls_local[t].instance
    /\ ls_pc' = [ls_pc EXCEPT ![t] = "unlock"]
    /\ UNCHANGED <<initialization_lock_, ls_news, ls_local, not_ls_vars>>

\* The return from GetSlowPath: SimpleScopedSpinLocker's destructor stores
\* false with release order (line 58).
GetUnlock(t) ==
    /\ ls_pc[t] = "unlock"
    /\ initialization_lock_' = [held |-> FALSE, sees |-> ls_local[t].sees]
    /\ ls_local' = [ls_local EXCEPT ![t].ret = ls_local[t].instance]
    /\ ls_pc' = [ls_pc EXCEPT ![t] = "idle"]
    /\ UNCHANGED <<instance_, ls_news, not_ls_vars>>

\* A step of a Get() call in progress.
GetStep(t) == GetLoad(t) \/ GetLock(t) \/ GetCheck(t) \/ GetNew(t) \/ GetStore(t) \/ GetUnlock(t)

SingletonNext ==
    \/ \E t \in Callers : Get(t)
    \/ \E t \in Callers : GetLoad(t)
    \/ \E t \in Callers : GetLock(t)
    \/ \E t \in Callers : GetCheck(t)
    \/ \E t \in Callers : GetNew(t)
    \/ \E t \in Callers : GetStore(t)
    \/ \E t \in Callers : GetUnlock(t)

-----------------------------------------------------------------------------
(* LightweightQuarantineBranch<QuarantineCapacityCount> and its root.      *)
(*                                                                         *)
(* Several branches share one root; a branch is used by any thread and     *)
(* guards its list with its own lock_.  Quarantine is split where other    *)
(* threads can run: before the lock is taken, between the two loads of the *)
(* root's size_in_bytes_ made under the lock (lines 29 and 73), and after  *)
(* the lock is released, where the root's counters are incremented.  A     *)
(* load reads the last value stored.  The assertions are PA_DCHECKs: the   *)
(* model records whether they hold and goes on, as a build without DCHECKs *)
(* does.  An object is passed to Quarantine at most once.                  *)

\* kQuarantineCapacityCount (the branch is instantiated with 1024), scaled.
kQuarantineCapacityCount == 2

LqBranches == {"b1", "b2"}

\* The objects: two small ones and a big one.
LqObjects == {"s1", "s2", "big"}

LqNewRoot(capacity_in_bytes) == [capacity_in_bytes |-> capacity_in_bytes, size_in_bytes |-> 0, count |-> 0, cumulative_count |-> 0, cumulative_size_in_bytes |-> 0, quarantine_miss_count |-> 0]

\* A branch holding nothing; slots holds the first branch_count_ entries of
\* slots_.
LqNewBranch == [count |-> 0, size_in_bytes |-> 0, slots |-> <<>>]

\* counted (ghost): when the lock was taken, the root's counters had been
\* incremented for every insertion made into the branch.
NoLqLocal == [branch |-> "none", object |-> NoObject, usable_size |-> 0, capacity_in_bytes |-> 0, counted |-> TRUE]

NoLqCall == [op |-> "none", object |-> NoObject, branch |-> "none", count_ok |-> TRUE, size_ok |-> TRUE, counted |-> TRUE]

LqRest ==
    /\ lq_branch = [b \in LqBranches |-> LqNewBranch]
    /\ lq_lock = [b \in LqBranches |-> NoThread]
    /\ lq_pc = [t \in Threads |-> "idle"]
    /\ lq_local = [t \in Threads |-> NoLqLocal]
    /\ lq_fresh = LqObjects
    /\ lq_freed = {}
    /\ lq_last = NoLqCall

LqInit == lq_root \in {LqNewRoot(c) : c \in Capacities} /\ LqRest

LqIdle == lq_root = LqNewRoot(0) /\ LqRest

\* size_in_bytes_held_by_others (lines 28-30), in size_t.
HeldByOthers(root_size_in_bytes_, branch_size_in_bytes_) == (root_size_in_bytes_ + SizeMod - branch_size_in_bytes_) % SizeMod

\* Faulty variant: every entry is taken to fit.
LqCannotFit_Never(capacity_in_bytes, size_in_bytes_held_by_others, usable_size) == FALSE

\* The test of line 31, in size_t.
LqCannotFit(capacity_in_bytes, size_in_bytes_held_by_others, usable_size) == capacity_in_bytes < (size_in_bytes_held_by_others + usable_size) % SizeMod

\* PurgeInternal's loop (lines 78-99): frees the last entry while the branch
\* holds one and is above either target; size_in_bytes is the local copy of
\* the root's size_in_bytes_.
RECURSIVE LqPurgeLoop(_, _, _, _, _)
LqPurgeLoop(target_branch_count, target_size_in_bytes, sl, size_in_bytes, freed) ==
    IF Len(sl) # 0 /\ (target_branch_count < Len(sl) \/ target_size_in_bytes < size_in_bytes)
    THEN LET to_free == sl[Len(sl)] IN
         LqPurgeLoop(target_branch_count, target_size_in_bytes, SubSeq(sl, 1, Len(sl) - 1),
                     (size_in_bytes + SizeMod - UsableSize(to_free)) % SizeMod, Append(freed, to_free))
    ELSE [slots |-> sl, freed |-> freed]

\* Faulty variant: a purge that looks at the size target only.
LqPurgeInternal_SizeOnly(target_branch_count, target_size_in_bytes, sl, size_in_bytes) == LqPurgeLoop(kQuarantineCapacityCount + 1, target_size_in_bytes, sl, size_in_bytes, <<>>)

\* PurgeInternal(target_branch_count, target_size_in_bytes) (lines 69-105)
\* on the slots of a branch, size_in_bytes being what line 73 loads.
LqPurgeInternal(target_branch_count, target_size_in_bytes, sl, size_in_bytes) == LqPurgeLoop(target_branch_count, target_size_in_bytes, sl, size_in_bytes, <<>>)

\* Quarantine(object, ...) up to the lock (lines 17-20).
LqQuarantine(t, b, o) ==
    /\ lq_pc[t] = "idle"
    /\ o \in lq_fresh
    /\ lq_fresh' = lq_fresh \ {o}
    /\ lq_local' = [lq_local EXCEPT ![t] = [branch |-> b, object |-> o, usable_size |-> UsableSize(o), capacity_in_bytes |-> lq_root.capacity_in_bytes, counted |-> TRUE]]
    /\ lq_pc' = [lq_pc EXCEPT ![t] = "lock"]
    /\ lq_last' = NoLqCall
    /\ UNCHANGED <<lq_root, lq_branch, lq_lock, lq_freed, not_lq_vars>>

\* The lock is taken and the entry is found not to fit (lines 26-37): the
\* object is freed, the miss is counted, Quarantine returns false.
LqMiss(t) ==
    /\ lq_pc[t] = "lock"
    /\ lq_lock[lq_local[t].branch] = NoThread
    /\ LqCannotFit(lq_local[t].capacity_in_bytes, HeldByOthers(lq_root.size_in_bytes, lq_branch[lq_local[t].branch].size_in_bytes), lq_local[t].usable_size)
    /\ lq_freed' = lq_freed \cup {lq_local[t].object}
    /\ lq_root' = [lq_root EXCEPT !.quarantine_miss_count = FetchAdd(@, 1)]
    /\ lq_last' = [NoLqCall EXCEPT !.op = "false", !.object = lq_local[t].object, !.branch = lq_local[t].branch]
    /\ lq_local' = [lq_local EXCEPT ![t] = NoLqLocal]
    /\ lq_pc' = [lq_pc EXCEPT ![t] = "idle"]
    /\ UNCHANGED <<lq_branch, lq_lock, lq_fresh, not_lq_vars>>

\* The lock is taken and the entry is found to fit (lines 26-31).
LqLock(t) ==
    /\ lq_pc[t] = "lock"
    /\ lq_lock[lq_local[t].branch] = NoThread
    /\ ~LqCannotFit(lq_local[t].capacity_in_bytes, HeldByOthers(lq_root.size_in_bytes, lq_branch[lq_local[t].branch].size_in_bytes), lq_local[t].usable_size)
    /\ lq_lock' = [lq_lock EXCEPT ![lq_local[t].branch] = t]
    /\ lq_pc' = [lq_pc EXCEPT ![t] = "purge"]
    /\ lq_local' = [lq_local EXCEPT ![t].counted = \A u \in Threads : lq_pc[u] = "stats" => lq_local[u].branch # lq_local[t].branch]
    /\ lq_last' = NoLqCall
    /\ UNCHANGED <<lq_root, lq_branch, lq_fresh, lq_freed, not_lq_vars>>

\* The rest of the critical section (lines 39-58): PurgeInternal, the
\* branch's counters with their two assertions, the insertion and the swap.
LqInsert(t, random_index) ==
    /\ lq_pc[t] = "purge"
    /\ LET b == lq_local[t].branch
           o == lq_local[t].object
           usable_size == lq_local[t].usable_size
           capacity_in_bytes == lq_local[t].capacity_in_bytes
           r == LqPurgeInternal(kQuarantineCapacityCount - 1, (capacity_in_bytes + SizeMod - usable_size) % SizeMod, lq_branch[b].slots, lq_root.size_in_bytes)
           freed_size_in_bytes == SumUsable(SeqToSet(r.freed))
           branch_count_ == Len(r.slots) + 1
           branch_size_in_bytes_ == (lq_branch[b].size_in_bytes + SizeMod - freed_size_in_bytes + usable_size) % SizeMod
       IN /\ random_index \in 0 .. (branch_count_ - 1)
          /\ lq_branch' = [lq_branch EXCEPT ![b] = [count |-> branch_count_, size_in_bytes |-> branch_size_in_bytes_, slots |-> PushAndSwap(r.slots, o, random_index)]]
          /\ lq_root' = [lq_root EXCEPT !.count = FetchSub(@, Len(r.freed)), !.size_in_bytes = FetchSub(@, freed_size_in_bytes)]
          /\ lq_freed' = lq_freed \cup SeqToSet(r.freed)
          /\ lq_last' = [op |-> "insert", object |-> o, branch |-> b, count_ok |-> branch_count_ <= kQuarantineCapacityCount, size_ok |-> branch_size_in_bytes_ <= capacity_in_bytes, counted |-> lq_local[t].counted]
    /\ lq_lock' = [lq_lock EXCEPT ![lq_local[t].branch] = NoThread]
    /\ lq_pc' = [lq_pc EXCEPT ![t] = "stats"]
    /\ UNCHANGED <<lq_local, lq_fresh, not_lq_vars>>

\* The root's counters, not locked, and the return of true (lines 60-66).
LqStats(t) ==
    /\ lq_pc[t] = "stats"
    /\ lq_root' = [lq_root EXCEPT !.count = FetchAdd(@, 1), !.size_in_bytes = FetchAdd(@, lq_local[t].usable_size), !.cumulative_count = FetchAdd(@, 1), !.cumulative_size_in_bytes = FetchAdd(@, lq_local[t].usable_size)]
    /\ lq_last' = [NoLqCall EXCEPT !.op = "true", !.object = lq_local[t].object, !.branch = lq_local[t].branch]
    /\ lq_local' = [lq_local EXCEPT ![t] = NoLqLocal]
    /\ lq_pc' = [lq_pc EXCEPT ![t] = "idle"]
    /\ UNCHANGED <<lq_branch, lq_lock, lq_fresh, lq_freed, not_lq_vars>>

LqNext ==
    \/ \E t \in Threads, b \in LqBranches, o \in LqObjects : LqQuarantine(t, b, o)
    \/ \E t \in Threads : LqMiss(t)
    \/ \E t \in Threads : LqLock(t)
    \/ \E t \in Threads, i \in 0 .. (kQuarantineCapacityCount - 1) : LqInsert(t, i)
    \/ \E t \in Threads : LqStats(t)

-----------------------------------------------------------------------------
(* The specifications.                                                     *)

\* The handle table, the address space and the arithmetic of Init at rest.
CageIdle ==
    /\ cage_build = [dcheck_is_on |-> FALSE, use_backup_ref_ptr |-> FALSE]
    /\ ManagerInit
    /\ reserved_address_start_ = 0
    /\ setup_ = NoSetup
    /\ AlignIdle

\* Everything but the handle table and the address space at rest.
OthersIdle == PoolInit /\ MTInit /\ SLQIdle /\ FreelistIdle /\ ChainInit /\ StatsIdle /\ SingletonIdle /\ LqIdle

InitPool == PoolInit /\ MTInit /\ SLQIdle /\ FreelistIdle /\ ChainInit /\ CageIdle /\ StatsIdle /\ SingletonIdle /\ LqIdle

SpecPool == InitPool /\ [][PoolNext]_vars

SpecPoolMT == InitPool /\ [][PoolMTNext]_vars

InitSLQ ==
    /\ thread_bound \in BOOLEAN
    /\ SLQConstructed
    /\ PoolInit
    /\ MTInit
    /\ FreelistIdle
    /\ ChainInit
    /\ CageIdle
    /\ StatsIdle
    /\ SingletonIdle
    /\ LqIdle

SpecSLQ == InitSLQ /\ [][SLQNext]_vars

InitFreelist == FreelistInit /\ PoolInit /\ MTInit /\ SLQIdle /\ ChainInit /\ CageIdle /\ StatsIdle /\ SingletonIdle /\ LqIdle

SpecFreelist == InitFreelist /\ [][FreelistNext]_vars

SpecFreelistCorrupt == InitFreelist /\ [][FreelistCorruptNext]_vars

InitChain == FreelistInit /\ ChainInit /\ PoolInit /\ MTInit /\ SLQIdle /\ CageIdle /\ StatsIdle /\ SingletonIdle /\ LqIdle

SpecChain == InitChain /\ [][ChainNext]_vars

\* CheckFreeList is a loop of one thread: once called it keeps running.
SpecChainLive == InitChain /\ [][ChainNext]_vars /\ WF_ch_vars(CheckFreeListStep)


InitManager ==
    /\ cage_build \in CageBuilds
    /\ ManagerInit
    /\ reserved_address_start_ = 0
    /\ setup_ = NoSetup
    /\ AlignIdle
    /\ OthersIdle

SpecManager == InitManager /\ [][ManagerNext]_vars

InitCage == CageInit /\ AlignIdle /\ OthersIdle

SpecCage == InitCage /\ [][CageNext]_vars

InitAlign ==
    /\ AlignInit
    /\ cage_build = [dcheck_is_on |-> FALSE, use_backup_ref_ptr |-> FALSE]
    /\ ManagerInit
    /\ reserved_address_start_ = 0
    /\ setup_ = NoSetup
    /\ OthersIdle

SpecAlign == InitAlign /\ [][AlignNext]_vars

InitPoolCalls ==
    /\ PoolInit
    /\ MTInit
    /\ cage_build \in [dcheck_is_on : BOOLEAN, use_backup_ref_ptr : {FALSE}]
    /\ ManagerInit
    /\ reserved_address_start_ = 0
    /\ setup_ = NoSetup
    /\ AlignIdle
    /\ SLQIdle
    /\ FreelistIdle
    /\ ChainInit
    /\ StatsIdle
    /\ SingletonIdle
    /\ LqIdle

SpecPoolCalls == InitPoolCalls /\ [][PoolCallsNext]_vars

SpecConfigure == InitSLQ /\ [][ConfigureNext]_vars

SpecFill == InitSLQ /\ [][FillNext]_vars


\* Everything but the runtime statistics at rest.
NoStatsIdle == PoolInit /\ MTInit /\ SLQIdle /\ FreelistIdle /\ ChainInit /\ CageIdle

InitBucket == BucketInit /\ StatsInit /\ NoStatsIdle /\ SingletonIdle /\ LqIdle

SpecBucket == InitBucket /\ [][BucketNext]_vars

SpecStats == InitBucket /\ [][StatsNext]_vars

InitSingleton == SingletonInit /\ LqIdle /\ StatsIdle /\ NoStatsIdle

\* A caller inside Get() is scheduled again and again, and its
\* compare_exchange_weak does not fail for ever on a free lock.
SpecSingleton == InitSingleton /\ [][SingletonNext]_vars /\ \A t \in Callers : WF_vars(GetStep(t))

InitLq == LqInit /\ SingletonIdle /\ StatsIdle /\ NoStatsIdle

SpecLq == InitLq /\ [][LqNext]_vars

-----------------------------------------------------------------------------
(* Properties of the pool.                                                 *)

SetBits == {i \in BitIndex : alloc_bitset[i]}

\* The super-pages of the pool that chunk c, of c.size bytes, covers.
ChunkPages(c) ==
    {i \in BitIndex : /\ FreeBegBit(c.address) <= i
                      /\ i < FreeBegBit(c.address) + CeilSuperPages(c.size)}

RECURSIVE SumSuperPages(_)
SumSuperPages(S) ==
    IF S = {} THEN 0
    ELSE LET c == CHOOSE x \in S : TRUE IN
         CopiesIn(c, live) * CeilSuperPages(c.size) + SumSuperPages(S \ {c})

\* No request of a live chunk rounds up past the largest size_t.
LiveSizesRoundUp == \A c \in BagToSet(live) : c.size <= SizeMod - kSuperPageSize

\* C1: with every FreeChunk releasing one live chunk with its own size, the
\* number of set bits equals the sum of ceil(size_i / super_page) over the
\* live chunks, and bit i is set iff super-page i belongs to a live chunk.
C1_BitsMatchLive ==
    /\ Cardinality(SetBits) = SumSuperPages(BagToSet(live))
    /\ \A i \in BitIndex :
          alloc_bitset[i] <=> \E c \in BagToSet(live) : i \in ChunkPages(c)

\* The same for runs in which no request's round-up overflows size_t.
C1_BitsMatchLive_RoundUpFits == LiveSizesRoundUp => C1_BitsMatchLive

\* bits [beg, beg + need) exist and are all clear in `bits`.
ClearRun(bits, need, beg) ==
    /\ beg + need <= total_bits
    /\ \A i \in BitIndex : (beg <= i /\ i < beg + need) => ~bits[i]

Lowest(S) == CHOOSE x \in S : \A y \in S : x <= y

\* What the contract asks of one FindChunk(size) called on bitmap `before`:
\* 0 and no change when no clear run exists, else the lowest run, filled.
FirstFitOutcome(before, size, ret, after) ==
    LET need == CeilSuperPages(size)
        runs == {b \in 0 .. total_bits : ClearRun(before, need, b)}
    IN IF runs = {}
       THEN ret = 0 /\ after = before
       ELSE /\ ret = address_begin + Lowest(runs) * kSuperPageSize
            /\ after = FillBits(before, Lowest(runs), Lowest(runs) + need)

\* C2: for every request of at least one byte FindChunk returns 0 iff the
\* bitmap has no run of ceil(request / super_page) clear bits, and otherwise
\* returns the lowest such run (first fit) and sets exactly its bits.
C2_FirstFit ==
    (pool_last.op = "find" /\ pool_last.size >= 1)
        => FirstFitOutcome(pool_last.before, pool_last.size, pool_last.ret,
                           alloc_bitset)

\* The same for requests whose round-up fits a size_t.
C2_FirstFit_RoundUpFits ==
    (pool_last.op = "find" /\ pool_last.size >= 1
        /\ pool_last.size <= SizeMod - kSuperPageSize)
        => FirstFitOutcome(pool_last.before, pool_last.size, pool_last.ret,
                           alloc_bitset)

\* C3: in every interleaving of Alloc and Free calls of several threads on
\* one pool, the chunks live at the same time never overlap: no super-page
\* belongs to two live chunks.
C3_NoOverlap ==
    \A c1, c2 \in BagToSet(live) :
        /\ (c1 # c2 => ChunkPages(c1) \cap ChunkPages(c2) = {})
        /\ (CopiesIn(c1, live) > 1 => ChunkPages(c1) = {})

\* The same for runs in which no request's round-up overflows size_t.
C3_NoOverlap_RoundUpFits == LiveSizesRoundUp => C3_NoOverlap


\* FindChunk(r) called now succeeds and returns an address not above a.
ReusableAt(r, a) ==
    LET f == FindScan(alloc_bitset, bit_hint, r) IN
    f.found /\ ChunkAddress(f.beg_bit) <= a

\* After FreeChunk(a, s) every request of at least one and at most
\* ceil(s / super_page) super-pages is served at or below a.
FreedIsReusable(sizes) ==
    pool_last.op = "free" =>
        \A r \in sizes :
            (1 <= CeilSuperPages(r)
                /\ CeilSuperPages(r) <= CeilSuperPages(pool_last.size))
              => ReusableAt(r, pool_last.ret)

\* This step is FreeChunk(a, n) right after FindChunk(n) returned a.
FreeRightAfterFind ==
    /\ pool_last.op = "find"
    /\ pool_last.ret # 0
    /\ pool_last'.op = "free"
    /\ pool_last'.ret = pool_last.ret
    /\ pool_last'.size = pool_last.size

\* C23: freed space is always reusable: after free_chunk(a, s) the next
\* find_chunk(r) with 1 <= ceil(r/SP) <= ceil(s/SP) succeeds and returns an
\* address <= a (the hint never hides a freed run), and find_chunk(n) = a
\* immediately followed by free_chunk(a, n) restores the occupancy bitmap
\* exactly.
C23_FreedIsReusable ==
    /\ [](FreedIsReusable(1 .. (SizeMod - 1)))
    /\ [][FreeRightAfterFind => alloc_bitset' = pool_last.before]_vars

\* The same for freed sizes and requests whose round-up fits a size_t.
C23_FreedIsReusable_RoundUpFits ==
    /\ [](pool_last.size <= SizeMod - kSuperPageSize
             => FreedIsReusable(1 .. (SizeMod - kSuperPageSize)))
    /\ [][FreeRightAfterFind => alloc_bitset' = pool_last.before]_vars

\* A chunk of two super-pages below a chunk in use has been freed, with the
\* hint above it.
C23_RoundUpFits_Witness ==
    /\ pool_last.op = "free"
    /\ pool_last.size = kSuperPageSize + 1
    /\ pool_last.hint_before > FreeBegBit(pool_last.ret)
    /\ alloc_bitset[FreeBegBit(pool_last.ret) + 2]

-----------------------------------------------------------------------------
(* Properties of the scheduler-loop quarantine.                            *)

\* The entries moved to a to_be_freed array by a Quarantine that has not
\* run its BatchFree yet.
DeferredEntries ==
    UNION {SeqToSet(slq_local[t].to_be_freed) : t \in Threads}

\* The step is a call Quarantine(o, ...): o leaves the callers' hands.
QuarantineCalled(o) == o \in fresh /\ o \notin fresh'

\* The step frees o once and nothing else.
FreesOnly(o) ==
    /\ free_count'[o] = free_count[o] + 1
    /\ \A p \in Objects \ {o} : free_count'[p] = free_count[p]

\* C4: in every interleaving of Quarantine and Purge on a shared branch no
\* object is passed to FreeNoHooksImmediate twice, and once every call has
\* returned cumulative_count equals the number of accepted inserts.
C4_NoDoubleFree_CountsInserts ==
    /\ \A o \in Objects : free_count[o] <= 1
    /\ AllIdle => root_cumulative_count = Cardinality(accepted)

C4_Witness ==
    /\ ~thread_bound
    /\ AllIdle
    /\ accepted = {"s1", "s2", "big"}
    /\ root_cumulative_count = 3
    /\ \E o \in accepted : free_count[o] = 1
    /\ slots # <<>>

\* C5 as claimed: while the branch holds an entry, size_bytes is at most
\* capacity_bytes, whatever Quarantine, Purge, SetCapacityInBytes and
\* Configure calls come.
C5_SizeWithinCapacity ==
    slots # <<>> => branch_size_in_bytes <= branch_capacity_in_bytes

\* C5 as amended: size_bytes is at most capacity_bytes as long as, since the
\* branch was last drained with no Quarantine in progress, the capacity was
\* not lowered and no deferred purge stopped at kMaxFreeTimesPerPurge.
C5_SizeWithinCapacity_Amended ==
    (~cap_lowered /\ ~purge_truncated)
        => branch_size_in_bytes <= branch_capacity_in_bytes

C5_Witness ==
    /\ ~cap_lowered
    /\ ~purge_truncated
    /\ slots # <<>>
    /\ branch_size_in_bytes = branch_capacity_in_bytes
    /\ \E o \in accepted : free_count[o] = 1

\* C6 as claimed: when Purge() returns, size_bytes is 0, the slot vector is
\* empty and every entry accepted before the call has been freed, also
\* while other threads run Quarantine on a shared branch.
C6_PurgeDrains ==
    [][Purge => /\ branch_size_in_bytes' = 0
                /\ slots' = <<>>
                /\ \A o \in accepted : free_count'[o] >= 1]_vars

\* C6 as amended: ... every entry accepted before the call has been freed,
\* except those a concurrent Quarantine has moved to its to_be_freed array
\* and not freed yet: these are freed by that Quarantine's BatchFree.
C6_PurgeDrains_Amended ==
    [][Purge => /\ branch_size_in_bytes' = 0
                /\ slots' = <<>>
                /\ \A o \in accepted \ DeferredEntries : free_count'[o] >= 1]_vars

\* After a Purge that ran between a Quarantine's critical section and its
\* BatchFree: the branch is empty, that Quarantine's own entry has been
\* freed, its victims have not.
C6_Witness ==
    \E t \in Threads :
        /\ slq_pc[t] = "batch_free"
        /\ slq_local[t].to_be_freed # <<>>
        /\ slots = <<>>
        /\ branch_size_in_bytes = 0
        /\ free_count[slq_local[t].object] = 1

\* C7: Quarantine of an entry larger than the capacity (quarantine enabled,
\* not paused, not direct-mapped) frees the object once, adds one to
\* quarantine_miss_count, evicts nothing, and leaves the slot vector,
\* size_bytes and the root's other four counters unchanged.
C7_OverCapacityEntry ==
    [][\A o \in Objects :
          ( /\ QuarantineCalled(o)
            /\ enable_quarantine
            /\ pause_quarantine = 0
            /\ ~IsDirectMappedBucket(o)
            /\ UsableSize(o) > branch_capacity_in_bytes )
          => /\ FreesOnly(o)
             /\ root_quarantine_miss_count' = root_quarantine_miss_count + 1
             /\ UNCHANGED <<slots, branch_size_in_bytes, root_count,
                            root_size_in_bytes, root_cumulative_count,
                            root_cumulative_size_in_bytes>>]_vars

C7_Witness ==
    /\ root_quarantine_miss_count >= 1
    /\ enable_quarantine
    /\ pause_quarantine = 0
    /\ slots # <<>>
    /\ branch_capacity_in_bytes = 1
    /\ "big" \notin accepted
    /\ free_count["big"] = 1

\* C8: with quarantine disabled, or inside ScopedQuarantineExclusion scopes,
\* or for a direct-mapped span, Quarantine frees the object once and leaves
\* the slot vector, size_bytes and the root's five counters unchanged.
C8_BypassIsPlainFree ==
    [][\A o \in Objects :
          ( /\ QuarantineCalled(o)
            /\ (~enable_quarantine \/ pause_quarantine > 0
                   \/ IsDirectMappedBucket(o)) )
          => /\ FreesOnly(o)
             /\ UNCHANGED <<slots, branch_size_in_bytes, root_count,
                            root_size_in_bytes, root_cumulative_count,
                            root_cumulative_size_in_bytes,
                            root_quarantine_miss_count>>]_vars

\* Two nested exclusion scopes on an enabled branch that holds an entry,
\* and an object that was freed without being quarantined or missed.
C8_Witness ==
    /\ enable_quarantine
    /\ pause_quarantine = 2
    /\ slots # <<>>
    /\ root_quarantine_miss_count = 0
    /\ \E o \in Objects \ {"dm"} :
          o \notin fresh /\ o \notin accepted /\ free_count[o] = 1

\* The parts of C9 about the cumulative counters: whenever no Quarantine is
\* in progress they count the accepted inserts and their usable sizes, and
\* no step decreases them.
CumulativeCountersExact ==
    /\ [](AllIdle =>
            /\ root_cumulative_count = Cardinality(accepted)
            /\ root_cumulative_size_in_bytes = SumUsable(accepted))
    /\ [][/\ root_cumulative_count' >= root_cumulative_count
          /\ root_cumulative_size_in_bytes' >= root_cumulative_size_in_bytes]_vars

\* The step is the Purge() that follows a run of k >= 1 accepted Quarantine
\* calls, with nothing else in between.
PurgeAfterInserts == Purge /\ AllIdle /\ slq_base.valid /\ slq_base.inserts

\* C9 as claimed: after k accepted Quarantine calls and a Purge() (nothing
\* else touching the root) cumulative_count has grown by k and
\* cumulative_size_in_bytes by the k usable sizes, neither ever decreases,
\* and count and size_in_bytes are back at their values before the inserts.
C9_InsertThenPurge ==
    /\ CumulativeCountersExact
    /\ [][PurgeAfterInserts =>
             /\ root_count' = slq_base.count
             /\ root_size_in_bytes' = slq_base.size_in_bytes]_vars

\* C9 as amended: ... and count and size_in_bytes are back at their values
\* before the inserts when the branch held no entry before the inserts
\* (Purge frees the entries held before as well).
C9_InsertThenPurge_Amended ==
    /\ CumulativeCountersExact
    /\ [][(PurgeAfterInserts /\ slq_base.held = 0) =>
             /\ root_count' = slq_base.count
             /\ root_size_in_bytes' = slq_base.size_in_bytes]_vars

\* After the Purge() that followed three accepted Quarantine calls on an
\* empty branch.
C9_Witness ==
    /\ AllIdle
    /\ slots = <<>>
    /\ slq_base.valid
    /\ slq_base.held = 0
    /\ ~slq_base.inserts
    /\ accepted = {"s1", "s2", "big"}
    /\ root_cumulative_count = 3
    /\ root_cumulative_size_in_bytes = 4
    /\ root_count = 0
    /\ root_size_in_bytes = 0

-----------------------------------------------------------------------------
(* Properties of the freelist link.                                        *)

SameSuperPage(a, b) ==
    BitAnd(SlotStartPtr2Addr(a), kSuperPageBaseMask)
        = BitAnd(SlotStartPtr2Addr(b), kSuperPageBaseMask)

\* The last call read the link back as the pointer that was stored.
ReadBackStored == ~fl_last.crashed /\ fl_last.ret = fl_stored

SamePool(a, b) == GetPoolInfo(a).base = GetPoolInfo(b).base

\* C10: after SetNext(p) or EmplaceAndInitForThreadCache(_, p) with p a
\* non-null pointer into the entry's pool, tag bits included,
\* GetNextForThreadCache returns exactly p, and GetNext returns p when p is
\* in the entry's super-page.
C10_RoundTrip ==
    (fl_stored # 0 /\ SamePool(fl_here, fl_stored))
    => /\ fl_last.call = "GetNextForThreadCache" => ReadBackStored
       /\ (fl_last.call = "GetNext" /\ SameSuperPage(fl_here, fl_stored))
             => ReadBackStored

\* What the code does give: the same for an untagged p that is a slot start
\* of the entry's own pool.
C10_RoundTrip_UntaggedSlotOfSamePool ==
    (fl_stored \in SlotStarts /\ SamePool(fl_here, fl_stored))
    => /\ fl_last.call = "GetNextForThreadCache" => ReadBackStored
       /\ (fl_last.call = "GetNext" /\ SameSuperPage(fl_here, fl_stored))
             => ReadBackStored

\* EncodeToOffset and DecodeFromOffset alone, with the pool info of p: the
\* pointer comes back, tag bits included.
C10_DecodeEncode ==
    \A p \in PoolPointers :
        DecodeFromOffset(EncodeToOffset(p), GetPoolInfo(p)) = p


\* The last call was one of the get_next variants and came back.
GetNextReturned ==
    /\ fl_last.call \in {"GetNext", "GetNextForThreadCache"}
    /\ ~fl_last.crashed

PoolBases == {non_brp_pool_base_address, brp_pool_base_address}

\* C11 as claimed: next_offset = 0 is the unique null encoding: no non-null
\* pointer of a pool is stored as 0 (fl_stored is the pointer EmplaceAndInit*
\* or SetNext encoded into next_), and an entry whose next_offset is
\* non-zero never reads back as null, whatever the get_next variant and the
\* corruption policy.
C11_NullEncodingUnique ==
    /\ fl_stored # 0 => fl_next # kNullptrOffset
    /\ (fl_here # 0 /\ fl_next # kNullptrOffset /\ GetNextReturned)
          => fl_last.ret # 0

\* C11 as amended: a non-null pointer of a pool is stored as 0 exactly when
\* it is the untagged base address of its pool, and an entry whose next_offset
\* is non-zero reads back as null only from GetNextForThreadCache with the
\* non-crashing policy on an entry IsWellFormed rejects.
C11_NullEncoding_Amended ==
    /\ fl_stored # 0 => (fl_next = kNullptrOffset <=> fl_stored \in PoolBases)
    /\ (fl_here # 0 /\ fl_next # kNullptrOffset /\ GetNextReturned
           /\ fl_last.ret = 0)
          => /\ fl_last.call = "GetNextForThreadCache"
             /\ ~IsWellFormed(TRUE, GetPoolInfo(fl_here), fl_here,
                              DecodeFromOffset(fl_next, GetPoolInfo(fl_here)),
                              fl_next, fl_shadow)

\* A non-zero next_offset that read back as null.
C11_Witness ==
    /\ fl_here # 0
    /\ fl_next # kNullptrOffset
    /\ fl_shadow = BitNot(fl_next)
    /\ fl_last.call = "GetNextForThreadCache"
    /\ ~fl_last.crashed
    /\ fl_last.ret = 0

\* shadow_ is the complement of a next_ that differs from the present one
\* in exactly one bit.
OneBitFlipped ==
    /\ fl_here # 0
    /\ \E bit \in 0 .. (SizeBits - 1) :
          fl_next = BitXor(BitNot(fl_shadow), 2 ^ bit)

\* C12 as claimed: a single flipped bit of next_offset (shadow not updated)
\* is detected by the next get_next: a crash with the crash policy, a
\* failure (null) with the other.
C12_FlipDetected ==
    [][OneBitFlipped =>
         /\ GetNext => fl_last'.crashed
         /\ GetNextForThreadCache(TRUE) => fl_last'.crashed
         /\ GetNextForThreadCache(FALSE)
               => (~fl_last'.crashed /\ fl_last'.ret = 0)]_vars

\* C12 as amended: ... is detected by the next get_next unless the flip
\* made next_offset zero, which get_next takes for the end of the list
\* without looking at shadow.
C12_FlipDetected_Amended ==
    [][(OneBitFlipped /\ fl_next # kNullptrOffset) =>
         /\ GetNext => fl_last'.crashed
         /\ GetNextForThreadCache(TRUE) => fl_last'.crashed
         /\ GetNextForThreadCache(FALSE)
               => (~fl_last'.crashed /\ fl_last'.ret = 0)]_vars

\* A flipped bit inside the offset, caught by GetNext.
C12_Witness ==
    /\ OneBitFlipped
    /\ fl_next # kNullptrOffset
    /\ BitAnd(fl_next, kPoolBaseMask) = 0
    /\ fl_last.call = "GetNext"
    /\ fl_last.crashed

NotInMetadata(ptr) ==
    BitAnd(SlotStartPtr2Addr(ptr), kSuperPageOffsetMask) >= PartitionPageSize

\* C13: whatever next_offset and shadow hold, a non-null pointer returned
\* by GetNext lies in the super-page of the entry it was read from and
\* outside that super-page's metadata region.
C13_GetNextStaysInSuperPage ==
    (fl_last.call = "GetNext" /\ ~fl_last.crashed /\ fl_last.ret # 0)
    => /\ SameSuperPage(fl_here, fl_last.ret)
       /\ NotInMetadata(fl_last.ret)

\* An overwritten entry from which GetNext returned a pointer.
C13_Witness ==
    /\ fl_stored = 0
    /\ fl_next # kNullptrOffset
    /\ fl_last.call = "GetNext"
    /\ ~fl_last.crashed
    /\ fl_last.ret # 0
    /\ fl_last.ret # fl_here

-----------------------------------------------------------------------------
(* Properties of the freelist chain.                                       *)

\* The slot start the entry at a links to, as SetNext was told: {} for null.
LinkOf(a) ==
    IF ch_link[a] = 0 THEN {} ELSE {SlotStartPtr2Addr(ch_link[a])}

\* The slot starts reached from the set S by following up to n links.
RECURSIVE ReachedFrom(_, _)
ReachedFrom(S, n) ==
    IF n = 0 THEN S
    ELSE ReachedFrom(S \cup UNION {LinkOf(a) : a \in S}, n - 1)

\* The chain from a holds an entry that links back to itself, directly or
\* through others.
CyclicFrom(a) ==
    \E b \in ReachedFrom({a}, MaxChain) :
        b \in ReachedFrom(LinkOf(b), MaxChain)

Walking == ch_pc = "walk"

-----------------------------------------------------------------------------
(* Properties of PartitionAddressSpace.                                    *)

\* Every address of the machine.
Addresses == 0 .. (SizeMod - 1)

\* No membership query accepts the address.
InNoPool(address) ==
    /\ ~CageIsInNonBRPPool(address)
    /\ ~CageIsInBRPPool(address)
    /\ ~IsInConfigurablePool(address)
    /\ ~IsManagedByPartitionAlloc(address)

AllocReturned ==
    /\ apm_last.op = "Alloc"
    /\ apm_last.outcome = "ok"
    /\ apm_last.ret # 0

\* The address is in the pool of handle h and in no other, and
\* GetPoolAndOffset gives h and the offset from that pool's base.
ClassifiedAs(address, h) ==
    LET r == GetPoolAndOffset(address) IN
    /\ CageIsInNonBRPPool(address) <=> h = setup_.non_brp_pool_
    /\ CageIsInBRPPool(address) <=> h = setup_.brp_pool_
    /\ IsInConfigurablePool(address) <=> h = setup_.configurable_pool_
    /\ r.outcome = "ok"
    /\ r.pool = h
    /\ r.offset = address - pools_[h].address_begin
    /\ r.offset < pools_[h].total_bits * kSuperPageSize

\* C16: after Init, for an address a returned by Alloc on the pool with
\* handle h for a request of s bytes, every address a + k with 0 <= k < s
\* belongs to exactly the pool h designates, and GetPoolAndOffset(a + k)
\* returns (h, a + k - base of that pool) with the offset below the pool
\* size.
C16_AllocClassified ==
    AllocReturned /\ IsInitialized =>
        \A k \in 0 .. (apm_last.length - 1) :
            ClassifiedAs((apm_last.ret + k) % SizeMod, apm_last.handle)

\* The same for requests whose round-up to a super-page fits size_t.
C16_AllocClassified_RoundUpFits ==
    AllocReturned /\ IsInitialized /\ apm_last.length <= SizeMod - kSuperPageSize =>
        \A k \in 0 .. (apm_last.length - 1) :
            ClassifiedAs((apm_last.ret + k) % SizeMod, apm_last.handle)

\* Alloc has returned a chunk of more than one super-page from the BRP
\* pool, in a region that also has a configurable pool.
C16_RoundUpFits_Witness ==
    /\ AllocReturned
    /\ IsConfigurablePoolInitialized
    /\ apm_last.handle = setup_.brp_pool_
    /\ apm_last.length = kSuperPageSize + 1

\* Init has computed its addresses.
LayoutDone == al_out # NoLayout

\* The base is inside the region and the pools end inside it.
PoolsInsideRegion ==
    /\ al_out.base >= al_in.start
    /\ al_out.current <= al_out.reserved_address_end

\* C17: for every reservation start and any constants satisfying the
\* static_asserts (the alignment is a power of two, alignment >= desired
\* size, reserved size > alignment), base = align_up(reserved_start,
\* alignment) satisfies base >= reserved_start and base + desired_size <=
\* reserved_start + reserved_size: the pools lie inside the reserved region
\* and the check current <= reserved_address_end never fails.
C17_PoolsInsideRegion == LayoutDone => PoolsInsideRegion

\* C17 as amended: the same when, in addition, the reserved size is at
\* least alignment + desired size - 1; and for any smaller reserved size
\* some reservation start puts the end of the pools outside the region.
C17_PoolsInsideRegion_Amended ==
    LayoutDone =>
        IF al_in.reserved >= al_in.alignment + al_in.desired - 1
        THEN PoolsInsideRegion
        ELSE al_in.start % al_in.alignment = 1 % al_in.alignment
                => ~PoolsInsideRegion

\* Init has aligned an unaligned start upwards, with the smallest reserved
\* size that still holds the pools.
C17_Witness ==
    /\ LayoutDone
    /\ al_out.base > al_in.start
    /\ al_in.desired > 1
    /\ al_in.reserved = al_in.alignment + al_in.desired - 1
    /\ al_out.current = al_out.reserved_address_end

\* The allocation-granularity unit that ends at the BRP pool's base.
ForbiddenZone ==
    (setup_.brp_pool_base_address_ - PageAllocationGranularity)
        .. (setup_.brp_pool_base_address_ - 1)

\* The super-pages of the chunk the last Alloc handed out.
ChunkHandedOut ==
    apm_last.ret
        .. (apm_last.ret + CeilSuperPages(apm_last.length) * kSuperPageSize - 1)

-----------------------------------------------------------------------------
(* Properties of AddressPoolManager.                                       *)

\* Every slot of pools_ holds a Pool.
TableFull == \A h \in Handles : pools_[h] # NoPool

\* This step is a call of the operation.
CallOf(op) == apm_last'.op = op

\* Handle h designates the same pool before and after the step.
KeepsPool(h) ==
    /\ pools_'[h].address_begin = pools_[h].address_begin
    /\ pools_'[h].total_bits = pools_[h].total_bits

\* Add with a free slot: the handle returned is in 1..kNumPools, was not
\* registered, now designates the new pool, and no other slot changes.
AddRegisters ==
    CallOf("Add") /\ ~TableFull =>
        /\ apm_last'.ret \in Handles
        /\ apm_last'.outcome = "ok"
        /\ pools_[apm_last'.ret] = NoPool
        /\ pools_'[apm_last'.ret] # NoPool
        /\ \A h \in Handles \ {apm_last'.ret} : pools_'[h] = pools_[h]

\* Add with every slot taken: nothing is registered; 0 is returned where
\* the assertion is compiled out, and the assertion fails where it is not.
AddFailsWhenFull ==
    CallOf("Add") /\ TableFull =>
        /\ pools_' = pools_
        /\ apm_last'.ret = 0
        /\ apm_last'.outcome = (IF cage_build.dcheck_is_on THEN "check" ELSE "ok")

\* A registered handle keeps its pool, and loses it only through Remove of
\* that handle (or ResetForTesting, which removes every pool).
HandlesStable ==
    \A h \in Handles :
        pools_[h] # NoPool =>
            IF pools_'[h] # NoPool
            THEN KeepsPool(h)
            ELSE \/ CallOf("Remove") /\ apm_last'.handle = h
                 \/ CallOf("ResetForTesting")

\* C19: for any sequence of Add and Remove calls, every handle returned by
\* Add while a slot is free lies in 1..kNumPools (never the sentinel 0), no
\* two simultaneously registered pools share a handle (Add never returns a
\* handle that is registered), a handle designates the same pool from its
\* Add until its Remove, and Add when all handle slots are occupied
\* registers nothing and fails (assertion, returning 0).
C19_HandlesStable ==
    [][AddRegisters /\ AddFailsWhenFull /\ HandlesStable]_vars

\* Add has been called with every slot taken, after a handle was removed
\* and given out again for another region.
C19_Witness ==
    /\ apm_last.op = "Add"
    /\ apm_last.ret = 0
    /\ TableFull
    /\ pools_[1].address_begin > pools_[2].address_begin
    /\ pools_[2].alloc_bitset[0]

\* The handle is zero, out of range, or not registered.
InvalidHandle(handle) == ~HandleInRange(handle) \/ pools_[handle] = NoPool

\* This step is a call of Alloc, Free or Remove with an invalid handle.
CallWithInvalidHandle ==
    /\ apm_last'.op \in {"Alloc", "Free", "Remove"}
    /\ InvalidHandle(apm_last'.handle)

\* C20: every pool-manager operation that takes a handle (Alloc, Free and
\* Remove) fails a check when the handle is zero, out of range, or
\* currently unregistered, and in that case modifies no pool and no handle
\* slot.
C20_InvalidHandleChecked ==
    [][CallWithInvalidHandle =>
          apm_last'.outcome = "check" /\ pools_' = pools_]_vars

\* What the code does check: with DCHECKs compiled in, Alloc and Free fail
\* the check for every invalid handle and Remove for every handle outside
\* 1..kNumPools, and pools_ is left alone.
C20_CheckedWithDChecks ==
    [][(/\ cage_build.dcheck_is_on
        /\ CallWithInvalidHandle
        /\ apm_last'.op = "Remove" => ~HandleInRange(apm_last'.handle))
          => apm_last'.outcome = "check" /\ pools_' = pools_]_vars

\* Remove of a handle in range that is not registered passes every check.
C20_RemoveUnregistered_Witness ==
    /\ cage_build.dcheck_is_on
    /\ apm_last.op = "Remove"
    /\ apm_last.outcome = "ok"
    /\ apm_last.handle = 2
    /\ \A h \in Handles : pools_[h] = NoPool

-----------------------------------------------------------------------------
(* Properties of the pool under calls of any alignment.                    *)

\* This step is a call of FreeChunk.
FreeChunkCalled == pool_last'.op \in {"free", "free_check"}

\* The call's address or size is not a multiple of the super-page size.
MisalignedFree ==
    \/ pool_last'.ret % kSuperPageSize # 0
    \/ pool_last'.size % kSuperPageSize # 0

\* The call failed a check and left the bitmap and the hint alone.
FreeChunkRejected ==
    /\ pool_last'.op = "free_check"
    /\ alloc_bitset' = alloc_bitset
    /\ bit_hint' = bit_hint

\* The call cleared the bits of the super-page the address lies in and of
\* those after it, as many as the size rounded up (in size_t) to a
\* super-page multiple, and lowered the hint to the first of them.
FreeChunkRounded ==
    LET beg == (pool_last'.ret - address_begin) \div kSuperPageSize
        need == NeedBits(pool_last'.size)
    IN /\ pool_last'.op = "free"
       /\ alloc_bitset' = [i \in BitIndex |->
                              alloc_bitset[i] /\ ~(beg <= i /\ i < beg + need)]
       /\ bit_hint' = (IF beg < bit_hint THEN beg ELSE bit_hint)

ClearCount(bits) == Cardinality({i \in BitIndex : ~bits[i]})
Remaining(bits) == ClearCount(bits) * kSuperPageSize

\* The clear bits of the bitmap form one run.
OneClearRun(bits) == \E b \in BitIndex : ClearRun(bits, ClearCount(bits), b)

\* FindChunk(requested_size) called now would return a chunk.
WouldSucceed(requested_size) ==
    FindScan(alloc_bitset, bit_hint, requested_size).found

\* C22: in every reachable pool state, find_chunk with a request exactly
\* equal to the pool's remaining free space (number of clear bits times the
\* super-page size, at least one super-page) succeeds, and a request one
\* super-page larger fails.
C22_ExactFit ==
    ClearCount(alloc_bitset) >= 1 =>
        /\ WouldSucceed(Remaining(alloc_bitset))
        /\ ~WouldSucceed(Remaining(alloc_bitset) + kSuperPageSize)

\* C22 as amended: the request equal to the remaining free space succeeds
\* exactly when the clear bits are contiguous (it then takes all of them),
\* and fails when the free space is split by a chunk in use; a request one
\* super-page larger always fails.
C22_ExactFit_Amended ==
    /\ ClearCount(alloc_bitset) >= 1 =>
          /\ WouldSucceed(Remaining(alloc_bitset)) <=> OneClearRun(alloc_bitset)
          /\ ~WouldSucceed(Remaining(alloc_bitset) + kSuperPageSize)
    /\ (/\ pool_last.op = "find"
        /\ pool_last.size = Remaining(pool_last.before)
        /\ pool_last.size >= kSuperPageSize)
          => IF OneClearRun(pool_last.before)
             THEN pool_last.ret # 0 /\ ClearCount(alloc_bitset) = 0
             ELSE pool_last.ret = 0 /\ alloc_bitset = pool_last.before

\* FindChunk was asked for exactly the free space of a pool whose first
\* super-page, freed before, lay below a chunk in use, and returned it.
C22_Witness ==
    /\ pool_last.op = "find"
    /\ pool_last.size = Remaining(pool_last.before)
    /\ pool_last.size = kSuperPageSize
    /\ pool_last.before[1]
    /\ pool_last.ret = address_begin

-----------------------------------------------------------------------------
(* Properties of the scheduler-loop quarantine: zapping, Configure, the    *)
(* working memory, the lock.                                               *)

\* The objects whose Quarantine call has not returned yet.
InProgress == {slq_local[t].object : t \in Threads} \ {NoObject}

\* The step is the return of a Quarantine(o, ...) that accepted the entry.
QuarantineReturned(o) ==
    /\ o \in fresh \/ o \in InProgress
    /\ o \in accepted'
    /\ o \notin InProgress'

\* The entries the branch holds.
Held == SeqToSet(slots)

C24_ZappedWhileHeld ==
    /\ [][\A o \in Objects :
            (enable_zapping /\ QuarantineReturned(o) /\ o \in Held')
                => o \in zapped']_vars
    /\ [](enable_zapping => \A o \in Held \ InProgress : o \in zapped)

\* A zapping branch holding two zapped entries after a third one was
\* evicted and freed.
C24_WhileHeld_Witness ==
    /\ enable_zapping
    /\ AllIdle
    /\ Len(slots) = 2
    /\ Held \subseteq zapped
    /\ \E o \in accepted \ Held : free_count[o] = 1

\* The zap of an entry that another thread has freed already.
C24_ZapAfterFree ==
    \E t \in Threads :
        /\ slq_pc[t] = "finish"
        /\ enable_zapping
        /\ free_count[slq_local[t].object] = 1

\* The step is a call of Configure, whether it passes its PA_CHECKs or not.
ConfigureCalled == slq_last'.op = "Configure"

\* The step is a Configure that returns.
ConfigureReturned == ConfigureCalled /\ slq_last'.outcome = "returned"

\* The step leaves the branch, both roots and the allocator as they were.
BranchUnchanged ==
    UNCHANGED <<root_, enable_quarantine, enable_zapping, pause_quarantine,
                branch_capacity_in_bytes, branch_size_in_bytes, slots,
                working_memory, arrays, free_count, RootCounters, other_root>>

\* The step frees every entry the branch held once, and nothing else.
FreesHeldOnce ==
    /\ \A o \in Held : free_count[o] = 0 /\ free_count'[o] = 1
    /\ \A o \in Objects \ Held : free_count'[o] = free_count[o]

\* The step takes the entries the branch held off the counters of root prev.
CountersDecreased(prev) ==
    /\ CountersOf(prev)'.count = CountersOf(prev).count - Len(slots)
    /\ CountersOf(prev)'.size_in_bytes =
          CountersOf(prev).size_in_bytes - SumUsable(Held)
    /\ CountersOf(prev).count >= Len(slots)
    /\ CountersOf(prev).size_in_bytes >= SumUsable(Held)
    /\ \A other \in Roots \ {prev} : CountersOf(other)' = CountersOf(other)

\* C25: Configure called with pause_quarantine_ > 0 aborts and changes
\* nothing; otherwise, when it returns, the branch is empty (size 0, no
\* slots), every entry it held has been freed exactly once, the count and
\* size_in_bytes of the root it pointed to have gone down by those entries,
\* and the capacity and the flags are those of the new configuration.
C25_Configure ==
    /\ [][(ConfigureCalled /\ pause_quarantine > 0)
             => (slq_last'.outcome = "check" /\ BranchUnchanged)]_vars
    /\ [][\A prev \in {root_} :
            (ConfigureCalled /\ pause_quarantine = 0)
                => /\ ConfigureReturned
                   /\ branch_size_in_bytes' = 0
                   /\ slots' = <<>>
                   /\ FreesHeldOnce
                   /\ prev # NoRoot => CountersDecreased(prev)
                   /\ prev = NoRoot => Held = {}
                   /\ root_' = slq_last'.root
                   /\ branch_capacity_in_bytes' =
                         slq_last'.config.branch_capacity_in_bytes
                   /\ enable_quarantine' = slq_last'.config.enable_quarantine
                   /\ enable_zapping' = slq_last'.config.enable_zapping]_vars

\* After a Configure that moved a branch holding two entries from root r1
\* to root r2: both entries freed, r1's count and size back at 0.
C25_Witness ==
    /\ root_ = "r2"
    /\ SLQRunning
    /\ slots = <<>>
    /\ branch_size_in_bytes = 0
    /\ Cardinality(accepted) = 2
    /\ \A o \in accepted : free_count[o] = 1
    /\ other_root.cumulative_count = 2
    /\ other_root.count = 0
    /\ other_root.size_in_bytes = 0
    /\ root_cumulative_count = 0
    /\ branch_capacity_in_bytes = MaxCapacity

\* A Configure inside an exclusion scope, stopped by its PA_CHECK, on a
\* branch that holds an entry.
C25_Aborted_Witness ==
    /\ ~SLQRunning
    /\ pause_quarantine > 0
    /\ slots # <<>>

\* The threads that hold a to_be_freed array: those between the borrow and
\* the hand-back of a Quarantine call on a shared branch.
ArrayHolders == {t \in Threads : slq_pc[t] # "idle"}

\* The arrays with an owner: one per holding thread, one when the cache is
\* not null.
OwnedArrays ==
    Cardinality(ArrayHolders) + (IF working_memory # NullArray THEN 1 ELSE 0)

\* The step is thread t's borrow of the working memory.
BorrowStep(t) == slq_pc[t] = "idle" /\ slq_pc'[t] = "locked"

\* C26: in every interleaving of Quarantine calls on a shared branch each
\* to_be_freed array has one owner at a time (a thread or the cache), none
\* is destroyed while it has an owner and none twice, so the arrays alive
\* are the owned ones; a thread that finds the cache empty constructs its
\* own array and one that finds it takes it; and once every call has
\* returned one array is cached and it is the only one alive.
C26_WorkingMemory ==
    /\ [](arrays = OwnedArrays)
    /\ []((AllIdle /\ ~thread_bound /\ enable_quarantine)
            => (working_memory # NullArray /\ arrays = 1))
    /\ [][\A t \in Threads :
            BorrowStep(t) =>
                /\ working_memory' = NullArray
                /\ arrays' = IF working_memory = NullArray THEN arrays + 1
                             ELSE arrays]_vars

\* Both threads inside Quarantine, each with an array of its own: the
\* second one found the cache empty.
C26_Witness ==
    /\ ~thread_bound
    /\ \A t \in Threads : slq_pc[t] # "idle"
    /\ working_memory = NullArray
    /\ arrays = 2

\* The step calls FreeNoHooksImmediate.
FreesSomething == \E o \in Objects : free_count'[o] # free_count[o]

FreedEntries == {o \in AllObjects : free_count[o] >= 1}

Min(a, b) == IF a <= b THEN a ELSE b

\* C28: a branch with fixed capacity C that starts empty and receives n
\* Quarantine calls for entries of one usable size u <= C, with no Purge
\* and no pause, afterwards holds min(n, floor(C/u)) entries in at most C
\* bytes; cumulative_count is n, and n - min(n, floor(C/u)) of the entries
\* have been freed through the allocator root, each once.
C28_FillToCapacity ==
    (AllIdle /\ Passed # {}) =>
        LET n == Cardinality(Passed)
            u == UsableSize(CHOOSE p \in Passed : TRUE)
            k == Min(n, branch_capacity_in_bytes \div u)
        IN /\ u <= branch_capacity_in_bytes
           /\ Len(slots) = k
           /\ Held \subseteq Passed
           /\ branch_size_in_bytes = k * u
           /\ branch_size_in_bytes <= branch_capacity_in_bytes
           /\ root_cumulative_count = n
           /\ Cardinality(FreedEntries) = n - k
           /\ \A o \in AllObjects : free_count[o] <= 1

\* Three entries of size 1 into a shared branch of capacity 2: two held,
\* one freed.
C28_Witness ==
    /\ ~thread_bound
    /\ AllIdle
    /\ Passed = {"s1", "s2", "s3"}
    /\ branch_capacity_in_bytes = 2
    /\ Len(slots) = 2
    /\ Cardinality(FreedEntries) = 1
    /\ root_cumulative_count = 3
-----------------------------------------------------------------------------
(* Properties of the runtime statistics.                                   *)

\* The window of a BucketStats: what Reported is to leave alone.
Window(b) == <<b.bucket_times, b.sum_ns, b.average_ns, b.valid>>

ReportedCalled == bucket_last'.op = "Reported"

\* C30: in every reachable state of a BucketStats, Reported() sets paused and
\* cycled to 0 and leaves bucket_times, sum_ns, average_ns and valid as they
\* were.
C30_Reported == [][ReportedCalled => bucket'.paused = 0 /\ bucket'.cycled = 0 /\ Window(bucket') = Window(bucket)]_vars

\* C30, the part that holds: Reported() never changes the window, and it sets
\* paused and cycled to 0 when the window is valid.
C30_ReportedWhenValid == [][ReportedCalled => Window(bucket') = Window(bucket) /\ (bucket.valid => bucket'.paused = 0 /\ bucket'.cycled = 0)]_vars

\* C30: Reported() has returned and left a counter that is not 0.
C30_StaleCounters == bucket_last.op = "Reported" /\ (bucket.paused # 0 \/ bucket.cycled # 0)

\* C30: the same after a full window and a Reset: cycled counts a cycle of a
\* window that no longer exists.
C30_StaleAfterReset == bucket_last.op = "Reported" /\ bucket.cycled # 0 /\ bucket.paused = 0

\* The zap time of a sample, in microseconds.
ZapTime(m) == IF m.zap_start = NullTime THEN 0 ELSE m.quarantine_end - m.zap_start

\* The sample's zap time is above the zap bucket's average by more than the
\* configured delta, all in nanoseconds.
Exceeds(s, m) == m.zap_start # NullTime /\ InNanoseconds(ZapTime(m)) - s.zap.average_ns > InNanoseconds(s.max_above_avg_zap_delta)

Configured(s) == s.max_above_avg_zap_delta > 0 /\ s.long_zap_pause_delta > 0

AddStatsCalled(m) == stats_last'.op = "AddStats" /\ stats' = AddStats(stats, m)

PauseSet(m) == stats'.pause_until = m.quarantine_end + stats.long_zap_pause_delta

PauseKept == stats'.pause_until = stats.pause_until

\* ShouldPause(t) has returned true exactly for the non-null t < pause_until.
ShouldPauseWhilePaused == stats_last.op = "ShouldPause" /\ stats.pause_until # NullTime => stats_last.result = (stats_last.start # NullTime /\ stats_last.start < stats.pause_until)

\* C29: with both deltas configured above 0, AddStats sets pause_until to the
\* sample's end time plus long_zap_pause_delta whenever the sample's zap time
\* exceeds the bucket's average by more than max_above_avg_zap_delta, sets no
\* pause otherwise, and ShouldPause(t) is then true exactly for the non-null
\* t < pause_until.
C29_Pause == [][\A m \in Samples : AddStatsCalled(m) /\ Configured(stats) => IF Exceeds(stats, m) THEN PauseSet(m) ELSE PauseKept]_vars /\ []ShouldPauseWhilePaused

\* C29 as amended: the same for the tracker once initialized, the pause being
\* set only when the zap bucket's window is valid after the sample has been
\* recorded, the average being the one before the sample was recorded.
C29_Pause_Amended == [][\A m \in Samples : AddStatsCalled(m) /\ Configured(stats) => IF stats'.zap.valid /\ Exceeds(stats, m) THEN PauseSet(m) ELSE PauseKept]_vars /\ []ShouldPauseWhilePaused

\* C29: a pause has been set and ShouldPause has answered true.
C29_Witness == stats_last.op = "ShouldPause" /\ stats_last.result /\ stats.zap.paused > 0 /\ Configured(stats)

\* C29: a sample above the average has been recorded into a window not yet
\* valid, and no pause is set.
C29_WarmUp == stats_last.op = "AddStats" /\ Configured(stats) /\ ~stats.zap.valid /\ stats.zap.idx > 0 /\ stats.zap.bucket_times[stats.zap.idx - 1] > InNanoseconds(stats.max_above_avg_zap_delta) /\ stats.pause_until = NullTime


\* C36: a window is flagged valid once it has been filled once: valid() is
\* false after each of the first kMaxTimesToTrack - 1 RecordValue calls
\* following construction or Reset() and true after the kMaxTimesToTrack-th
\* and all later ones, whatever Reported() calls are interleaved.
C36_ValidOnceFilled == bucket.valid <=> bucket_last.records >= kMaxTimesToTrack

\* The kMaxTimesToTrack-th value has just been recorded and the window has
\* become valid.
C36_Witness == bucket_last.op = "RecordValue" /\ bucket_last.records = kMaxTimesToTrack /\ bucket.valid /\ bucket.cycled = 1 /\ bucket.paused = 0 /\ bucket.sum_ns > kMaxTimesToTrack

\* A Reported() call made while the window is filling.
C36_ReportedWhileFilling == bucket_last.op = "Reported" /\ bucket_last.records > 0 /\ ~bucket.valid

\* C37: for non-negative values passed to RecordValue, in every state where
\* valid() is true sum_ns is the sum of the kMaxTimesToTrack values stored in
\* bucket_times and average_ns is sum_ns / kMaxTimesToTrack by integer
\* division.
C37_SumOfWindow == bucket.valid => bucket.sum_ns = SumUpTo(bucket.bucket_times, kMaxTimesToTrack) /\ bucket.average_ns = bucket.sum_ns \div kMaxTimesToTrack

\* By how much sum_ns_ is above the sum of the values it stands for.
Drift(b) == b.sum_ns - WindowSum(b)

\* What holds of C37: average_ns is sum_ns / kMaxTimesToTrack whenever the
\* window is valid; sum_ns is never below the sum of the window, a value
\* other than 0 leaves the difference as it is and a 0 adds 1 to it.
C37_SumDrifts ==
    /\ [](bucket.valid => bucket.average_ns = bucket.sum_ns \div kMaxTimesToTrack)
    /\ [](Drift(bucket) >= 0)
    /\ [][bucket_last'.op = "RecordValue" => Drift(bucket') = Drift(bucket) + (IF bucket_last'.value_ns = 0 THEN 1 ELSE 0)]_vars

\* A valid window holding a 0, its sum_ns one above the sum of its values.
C37_ZeroSample == bucket.valid /\ bucket.bucket_times[0] = 0 /\ bucket.sum_ns = SumUpTo(bucket.bucket_times, kMaxTimesToTrack) + 1

\* What a caller can observe of a BucketStats.
Observable(b) == <<b.valid, b.cycled, b.paused, b.average_ns, b.sum_ns, b.bucket_times>>

\* C38: Reset() resets everything to its initial state: after Reset() every
\* observable value (valid, cycled, paused, average_ns, sum_ns,
\* bucket_times) equals that of a freshly constructed BucketStats.
C38_ResetToInitial == bucket_last.op = "Reset" => Observable(bucket) = Observable(NewBucketStats)

\* What holds of C38: Reset() restores valid, sum_ns, average_ns and the two
\* indexes.
C38_ResetWindowState == bucket_last.op = "Reset" => ~bucket.valid /\ bucket.sum_ns = 0 /\ bucket.average_ns = 0 /\ bucket.idx = 0 /\ bucket.reported_idx = kMaxTimesToTrack - 1

\* After Reset() the counters and the stored values of the old window are
\* still there.
C38_StaleAfterReset == bucket_last.op = "Reset" /\ bucket.cycled = 1 /\ bucket.paused = 1 /\ bucket.bucket_times[0] # 0
-----------------------------------------------------------------------------
(* Properties of the lightweight quarantine.                               *)

\* The step is a return of Quarantine with false: it has freed the object
\* and counted one miss.
ReturnsFalse == lq_last'.op = "false" => lq_last'.object \notin lq_freed /\ lq_freed' = lq_freed \cup {lq_last'.object} /\ lq_root'.quarantine_miss_count = lq_root.quarantine_miss_count + 1

\* The step is a return of Quarantine with true: it frees nothing and counts
\* no miss.
ReturnsTrue == lq_last'.op = "true" => lq_freed' = lq_freed /\ lq_root'.quarantine_miss_count = lq_root.quarantine_miss_count

\* C40: for every interleaving of threads quarantining into the branches of
\* one root, the two assertions made at insertion hold, branch_count_ <=
\* QuarantineCapacityCount and branch_size_in_bytes_ <= capacity_in_bytes,
\* and Quarantine returns false exactly when the object was freed
\* immediately and quarantine_miss_count was incremented.
C40_Quarantine ==
    /\ [](lq_last.op = "insert" => lq_last.count_ok /\ lq_last.size_ok)
    /\ [][ReturnsFalse /\ ReturnsTrue]_vars

\* What holds of C40: the assertion on branch_count_ and the meaning of the
\* result.
C40_CountAndResult ==
    /\ [](lq_last.op = "insert" => lq_last.count_ok)
    /\ [][ReturnsFalse /\ ReturnsTrue]_vars

\* What holds of C40 besides: the assertion on branch_size_in_bytes_ when,
\* as the lock was taken, no other Quarantine on the same branch was between
\* its insertion and its update of the root's counters.
C40_SizeWhenCounted == lq_last.op = "insert" /\ lq_last.counted => lq_last.size_ok

\* An insertion that left the branch above the capacity.
C40_AboveCapacity == lq_last.op = "insert" /\ ~lq_last.size_ok /\ lq_branch[lq_last.branch].size_in_bytes > lq_root.capacity_in_bytes

\* A branch filled to kQuarantineCapacityCount entries by an insertion that
\* evicted one.
C40_Full == lq_last.op = "insert" /\ lq_branch[lq_last.branch].count = kQuarantineCapacityCount /\ lq_freed # {} /\ lq_root.quarantine_miss_count = 0
-----------------------------------------------------------------------------
(* More properties of AddressPoolManager::Pool.                            *)

\* C32: in every reachable pool state bit_hint_ <= total_bits_ and every bit
\* below bit_hint_ is set: there is no free chunk before the hint.
C32_HintIsLowerBound == bit_hint <= total_bits /\ \A i \in BitIndex : i < bit_hint => alloc_bitset[i]

\* C32: a FreeChunk has lowered the hint to the chunk it freed, with
\* allocated super-pages left above it.
C32_Witness == pool_last.op = "free" /\ bit_hint < pool_last.hint_before /\ ~alloc_bitset[bit_hint] /\ \E i \in BitIndex : i > bit_hint /\ alloc_bitset[i]

\* C32: a FindChunk has failed and moved the hint over the allocated
\* super-pages it scanned.
C32_FailedFind_Witness == pool_last.op = "find" /\ pool_last.ret = 0 /\ bit_hint > pool_last.hint_before

\* What C39 asks of a FindChunk that returned a non-zero address: it marked
\* a super-page, and the chunk lies inside the pool.
MarkedAndInside ==
    /\ \E i \in BitIndex : alloc_bitset[i] /\ ~pool_last.before[i]
    /\ address_begin <= pool_last.ret
    /\ pool_last.ret < address_begin + total_bits * kSuperPageSize
    /\ pool_last.ret + CeilSuperPages(pool_last.size) * kSuperPageSize <= address_end

\* C39: for every request size, 0 and the sizes whose round-up overflows
\* included, FindChunk returns a non-zero address only if it has marked at
\* least one super-page, and the returned chunk lies inside the pool.
C39_FindChunkMarks == pool_last.op = "find" /\ pool_last.ret # 0 => MarkedAndInside

\* C39, the part that holds: the same for requests of 1 to
\* SIZE_MAX - kSuperPageSize + 1 bytes.
C39_FindChunkMarks_RoundUpFits == pool_last.op = "find" /\ pool_last.ret # 0 /\ pool_last.size > 0 /\ pool_last.size <= SizeMod - kSuperPageSize => MarkedAndInside

\* C39: a FindChunk of such a size has returned a chunk.
C39_RoundUpFits_Witness == pool_last.op = "find" /\ pool_last.ret # 0 /\ pool_last.size = total_bits * kSuperPageSize

\* C39: FindChunk(0) on a full pool has returned the address one past the
\* pool.
C39_ZeroAtPoolEnd == pool_last.op = "find" /\ pool_last.size = 0 /\ pool_last.ret = address_end

-----------------------------------------------------------------------------
(* Properties of LeakySingleton.                                           *)

\* The step is the return of caller t's Get().
GetReturns(t) == ls_pc[t] # "idle" /\ ls_pc'[t] = "idle"

\* C31: for any interleaving of concurrent Get() calls, Constructor::New is
\* invoked exactly once, every Get() returns that one non-null instance, no
\* caller is handed the pointer before the construction has completed for
\* it (the writes of New happen before the return), and every Get() call
\* terminates under fair scheduling.
C31_Singleton ==
    /\ [](ls_news <= 1)
    /\ [][\A t \in Callers : GetReturns(t) => ls_news' = 1 /\ ls_local'[t].ret = 1 /\ ls_local'[t].sees]_vars
    /\ \A t \in Callers : (ls_pc[t] # "idle") ~> (ls_pc[t] = "idle")

\* Every caller has returned the instance, one having built it, one having
\* found it under the lock, one on the fast path.
C31_Witness == (\A t \in Callers : ls_pc[t] = "idle" /\ ls_local[t].ret = 1) /\ {ls_local[t].path : t \in Callers} = {"built", "beaten", "fast"} /\ ls_news = 1

\* Two callers spinning on the lock while a third one holds it, the instance
\* not yet stored.
C31_Contended == initialization_lock_.held /\ instance_ = NullInstance /\ Cardinality({t \in Callers : ls_pc[t] = "lock"}) >= 2
-----------------------------------------------------------------------------
(* Properties of the scheduler-loop quarantine: the epilogue, the root's   *)
(* counters, the slot vector.                                              *)

\* The step is the end of thread t's Quarantine on a shared branch: the
\* statistics and QuarantineEpilogue (lines 192-198).
RunsEpilogue(t) == slq_pc[t] = "finish" /\ slq_pc'[t] = "idle"

\* C33: on a shared branch the epilogue of Quarantine(object), the zap and
\* the BRP pre-release hook, never runs after the object has been handed to
\* FreeNoHooksImmediate by another thread's eviction or purge.
C33_EpilogueBeforeFree == [][\A t \in Threads : RunsEpilogue(t) => free_count[slq_local[t].object] = 0]_vars

\* The epilogue about to run on an object that another thread has freed.
C33_EpilogueAfterFree == \E t \in Threads : slq_pc[t] = "finish" /\ free_count[slq_local[t].object] >= 1

\* The entries whose insertion the root's count_ and size_in_bytes_ have
\* been incremented for and that have not been evicted.
Counted == Held \ InProgress

\* C34: the root's unsigned count and size_in_bytes never wrap below zero,
\* in the middle of an operation either: no decrement for an evicted entry
\* comes before the increment made for its insertion.  Without a wrap the
\* counters are at most what the accepted entries account for.
C34_NoWrap == root_count <= Cardinality(accepted) /\ root_size_in_bytes <= SumUsable(accepted)

\* What holds of C34: no wrap while no Quarantine is in progress on a
\* shared branch, and never on a thread-bound one.
C34_NoWrap_Quiescent == (thread_bound \/ AllIdle) => (root_count <= Cardinality(accepted) /\ root_size_in_bytes <= SumUsable(accepted))

\* A quiescent branch whose root has counted entries in and out.
C34_Quiescent_Witness == AllIdle /\ ~thread_bound /\ root_count = 1 /\ \E o \in accepted : free_count[o] = 1

\* The wrapped counter: an entry evicted and counted out before its own
\* Quarantine call counted it in.
C34_Wrapped == root_count = SizeMod - 1 /\ \E t \in Threads : slq_pc[t] \in {"batch_free", "finish"}

RECURSIVE SumSlots(_)
\* The sum of usable_size over the entries of a slot vector.
SumSlots(sl) == IF sl = <<>> THEN 0 ELSE UsableSize(Head(sl)) + SumSlots(Tail(sl))

\* The step inserts object o into the branch.
Inserts(o) == o \notin accepted /\ o \in accepted'

\* C35: whenever the branch lock is not held, branch_size_in_bytes_ is the
\* sum of usable_size over the slot vector and no slot_start occurs twice
\* in it; an insert leaves the entries that survived its purge (the purge
\* pops from the back) and the new entry in the vector, each once.
C35_SlotVector ==
    /\ [](branch_size_in_bytes = SumSlots(slots))
    /\ [](Cardinality(Held) = Len(slots))
    /\ [][\A o \in Objects : Inserts(o) =>
            /\ Held' = SeqToSet(SubSeq(slots, 1, Len(slots') - 1)) \cup {o}
            /\ Len(slots') = Cardinality(Held')]_vars

\* An insert whose swap moved the new entry away from the back of a vector
\* of two entries.
C35_Witness == \E t \in Threads : slq_pc[t] = "batch_free" /\ Len(slots) = 2 /\ slots[1] = slq_local[t].object /\ branch_size_in_bytes = 2
====
